---- MODULE Spec2Model ----
(***************************************************************************)
(* A model of chainlink's persistence layer (src/chainlink/src/db.rs):     *)
(* the issues and dependencies tables, the lifecycle operations on an      *)
(* issue, the dependency graph engine and its two readiness queries.       *)
(***************************************************************************)
EXTENDS Integers, Sequences, FiniteSets, TLC

VARIABLES
    issues,            \* the issues table: id -> row
    deps,              \* the dependencies table: set of <<blocker_id, blocked_id>>
    seq,               \* sqlite_sequence of issues (AUTOINCREMENT): the last id assigned
    now,               \* the clock Utc::now() reads
    ret,               \* what the last call returned
    labels,            \* the labels table: set of <<issue_id, label>>
    comments,          \* the comments table: id -> row
    comment_seq,       \* sqlite_sequence of comments
    relations,         \* the relations table: set of <<issue_id_1, issue_id_2, created_at>>
    milestones,        \* the milestones table: id -> row
    milestone_seq,     \* sqlite_sequence of milestones
    milestone_issues,  \* the milestone_issues table: set of <<milestone_id, issue_id>>
    sessions,          \* the sessions table: id -> row
    session_seq,       \* sqlite_sequence of sessions
    txn,               \* the open transaction: None, or Some of the tables as of BEGIN
    input_file,        \* the file at the path given to import: None, or Some of its data
    user_version,      \* PRAGMA user_version of the database file
    search,            \* the call of add_dependency in progress: its position, its
                       \* arguments, and the locals of would_create_cycle
    time_entries,      \* the time_entries table: id -> row
    time_seq           \* sqlite_sequence of time_entries

\* The tables and sequences the operations on issues and dependencies do not write.
side == <<labels, comments, comment_seq, relations, milestones, milestone_seq,
          milestone_issues, sessions, session_seq, txn, input_file, user_version,
          search, time_entries, time_seq>>

vars == <<issues, deps, seq, now, ret, side>>

----------------------------------------------------------------------------
(* Bounds of the model *)

MaxIssues == 3
ChainLen == 4
MaxLifeIssues == 2
MaxTime == 1
MaxRows == 3
MaxTreeIssues == 4
MaxCascadeRows == 2
MaxSessions == 2
MaxImportIssues == 2
MaxQueryLen == 2

\* const SCHEMA_VERSION: i32 = 7
SCHEMA_VERSION == 7

Ids == 1..MaxIssues
ChainIds == 1..ChainLen
LifeIds == 1..MaxLifeIssues
TreeIds == 1..MaxTreeIssues

----------------------------------------------------------------------------
(* Values *)

\* Option<T>: None is the empty sequence, Some(x) the one-element sequence.
None == <<>>
Some(x) == <<x>>

\* Result<bool> and Result<i64>/Result<i32>: Ok(true) and Ok(false) are Ok of type
\* bool with val 1 and 0, Ok(n) is Ok of type int with val n, and Err carries the
\* error's message.
OkBool(b) == [kind |-> "Ok", ty |-> "bool", val |-> IF b THEN 1 ELSE 0, msg |-> ""]
OkInt(n) == [kind |-> "Ok", ty |-> "int", val |-> n, msg |-> ""]
Err(m) == [kind |-> "Err", ty |-> "", val |-> 0, msg |-> m]

Exists(id) == id \in DOMAIN issues

\* The rows of `issues` with the rows whose id is in S removed.
Without(S) == [i \in (DOMAIN issues) \ S |-> issues[i]]

----------------------------------------------------------------------------
(* Issue CRUD *)

\* A faulty variant of create_issue_with_parent: an empty description is stored as
\* NULL.
create_issue_with_parent_empty_as_null(title, description, priority, parent_id) ==
    IF parent_id # None /\ ~Exists(parent_id[1])
    THEN /\ ret' = Err("FOREIGN KEY constraint failed")
         /\ UNCHANGED <<issues, deps, seq, now, side>>
    ELSE /\ seq' = seq + 1
         /\ issues' = [i \in (DOMAIN issues) \cup {seq + 1} |->
                          IF i = seq + 1
                          THEN [title |-> title,
                                description |-> IF description = Some("") THEN None
                                                                         ELSE description,
                                status |-> "open", priority |-> priority,
                                parent_id |-> parent_id, created_at |-> now,
                                updated_at |-> now, closed_at |-> None]
                          ELSE issues[i]]
         /\ ret' = OkInt(seq + 1)
         /\ UNCHANGED <<deps, now, side>>

\* A faulty variant of create_issue_with_parent: the id is one more than the
\* largest id stored, as a primary key without AUTOINCREMENT assigns it.
create_issue_with_parent_max_rowid(title, description, priority, parent_id) ==
    LET id == IF issues = <<>> THEN 1
              ELSE 1 + CHOOSE x \in DOMAIN issues : \A y \in DOMAIN issues : y <= x
    IN IF parent_id # None /\ ~Exists(parent_id[1])
       THEN /\ ret' = Err("FOREIGN KEY constraint failed")
            /\ UNCHANGED <<issues, deps, seq, now, side>>
       ELSE /\ seq' = id
            /\ issues' = [i \in (DOMAIN issues) \cup {id} |->
                             IF i = id
                             THEN [title |-> title, description |-> description,
                                   status |-> "open", priority |-> priority,
                                   parent_id |-> parent_id, created_at |-> now,
                                   updated_at |-> now, closed_at |-> None]
                             ELSE issues[i]]
            /\ ret' = OkInt(id)
            /\ UNCHANGED <<deps, now, side>>

\* A faulty variant of create_issue_with_parent: the parent is not looked up, as
\* with the foreign keys not enforced.
create_issue_with_parent_unchecked(title, description, priority, parent_id) ==
    /\ seq' = seq + 1
    /\ issues' = [i \in (DOMAIN issues) \cup {seq + 1} |->
                     IF i = seq + 1
                     THEN [title |-> title, description |-> description,
                           status |-> "open", priority |-> priority,
                           parent_id |-> parent_id, created_at |-> now,
                           updated_at |-> now, closed_at |-> None]
                     ELSE issues[i]]
    /\ ret' = OkInt(seq + 1)
    /\ UNCHANGED <<deps, now, side>>

create_issue_with_parent(title, description, priority, parent_id) ==
    IF parent_id # None /\ ~Exists(parent_id[1])
    THEN /\ ret' = Err("FOREIGN KEY constraint failed")
         /\ UNCHANGED <<issues, deps, seq, now, side>>
    ELSE /\ seq' = seq + 1
         /\ issues' = [i \in (DOMAIN issues) \cup {seq + 1} |->
                          IF i = seq + 1
                          THEN [title |-> title, description |-> description,
                                status |-> "open", priority |-> priority,
                                parent_id |-> parent_id, created_at |-> now,
                                updated_at |-> now, closed_at |-> None]
                          ELSE issues[i]]
         /\ ret' = OkInt(seq + 1)
         /\ UNCHANGED <<deps, now, side>>

create_issue(title, description, priority) ==
    create_issue_with_parent(title, description, priority, None)

\* A faulty variant of update_issue: the description is bound whether it is given
\* or not, so that an absent one overwrites the stored one with NULL.
update_issue_binds_absent(id, title, description, priority) ==
    /\ issues' = [i \in DOMAIN issues |->
                     IF i = id
                     THEN [issues[i] EXCEPT
                             !.updated_at = now,
                             !.title = IF title # None THEN title[1] ELSE @,
                             !.description = description,
                             !.priority = IF priority # None THEN priority[1] ELSE @]
                     ELSE issues[i]]
    /\ ret' = OkBool(Exists(id))
    /\ UNCHANGED <<deps, seq, now, side>>

update_issue(id, title, description, priority) ==
    /\ issues' = [i \in DOMAIN issues |->
                     IF i = id
                     THEN [issues[i] EXCEPT
                             !.updated_at = now,
                             !.title = IF title # None THEN title[1] ELSE @,
                             !.description = IF description # None THEN description ELSE @,
                             !.priority = IF priority # None THEN priority[1] ELSE @]
                     ELSE issues[i]]
    /\ ret' = OkBool(Exists(id))
    /\ UNCHANGED <<deps, seq, now, side>>

\* A faulty variant of close_issue: closed_at is stamped and status is not set.
close_issue_keeps_status(id) ==
    /\ issues' = [i \in DOMAIN issues |->
                     IF i = id
                     THEN [issues[i] EXCEPT !.closed_at = Some(now),
                                            !.updated_at = now]
                     ELSE issues[i]]
    /\ ret' = OkBool(Exists(id))
    /\ UNCHANGED <<deps, seq, now, side>>

close_issue(id) ==
    /\ issues' = [i \in DOMAIN issues |->
                     IF i = id
                     THEN [issues[i] EXCEPT !.status = "closed",
                                            !.closed_at = Some(now),
                                            !.updated_at = now]
                     ELSE issues[i]]
    /\ ret' = OkBool(Exists(id))
    /\ UNCHANGED <<deps, seq, now, side>>

\* Faulty variants of reopen_issue: parent_id is cleared with closed_at,
\* closed_at is not cleared, and the status is left as it is.
reopen_issue_clears_parent(id) ==
    /\ issues' = [i \in DOMAIN issues |->
                     IF i = id
                     THEN [issues[i] EXCEPT !.status = "open",
                                            !.closed_at = None,
                                            !.parent_id = None,
                                            !.updated_at = now]
                     ELSE issues[i]]
    /\ ret' = OkBool(Exists(id))
    /\ UNCHANGED <<deps, seq, now, side>>

reopen_issue_keeps_closed_at(id) ==
    /\ issues' = [i \in DOMAIN issues |->
                     IF i = id
                     THEN [issues[i] EXCEPT !.status = "open",
                                            !.updated_at = now]
                     ELSE issues[i]]
    /\ ret' = OkBool(Exists(id))
    /\ UNCHANGED <<deps, seq, now, side>>

reopen_issue_keeps_status(id) ==
    /\ issues' = [i \in DOMAIN issues |->
                     IF i = id
                     THEN [issues[i] EXCEPT !.closed_at = None,
                                            !.updated_at = now]
                     ELSE issues[i]]
    /\ ret' = OkBool(Exists(id))
    /\ UNCHANGED <<deps, seq, now, side>>

reopen_issue(id) ==
    /\ issues' = [i \in DOMAIN issues |->
                     IF i = id
                     THEN [issues[i] EXCEPT !.status = "open",
                                            !.closed_at = None,
                                            !.updated_at = now]
                     ELSE issues[i]]
    /\ ret' = OkBool(Exists(id))
    /\ UNCHANGED <<deps, seq, now, side>>

\* The issues DELETE FROM issues WHERE id = ?1 removes: the row and, through
\* FOREIGN KEY (parent_id) ... ON DELETE CASCADE, every row below it.  The rows of
\* labels, comments, dependencies, relations and milestone_issues that name a removed
\* issue go with it (ON DELETE CASCADE), and a session that names one has its
\* active_issue_id set to NULL (ON DELETE SET NULL).
RECURSIVE Descendants(_)
Descendants(S) ==
    LET kids == {i \in DOMAIN issues : issues[i].parent_id # None
                                        /\ issues[i].parent_id[1] \in S}
    IN IF kids \subseteq S THEN S ELSE Descendants(S \cup kids)

\* Faulty variants of delete_issue: the cascade stops at the children; the edges
\* in which a removed issue is the blocker stay; the sessions keep the id.
delete_issue_one_level(id) ==
    LET gone == IF Exists(id)
                THEN {id} \cup {i \in DOMAIN issues : issues[i].parent_id = Some(id)}
                ELSE {}
    IN /\ issues' = Without(gone)
       /\ deps' = {e \in deps : e[1] \notin gone /\ e[2] \notin gone}
       /\ labels' = {l \in labels : l[1] \notin gone}
       /\ comments' = [c \in {k \in DOMAIN comments : comments[k].issue_id \notin gone}
                           |-> comments[c]]
       /\ relations' = {r \in relations : r[1] \notin gone /\ r[2] \notin gone}
       /\ milestone_issues' = {m \in milestone_issues : m[2] \notin gone}
       /\ time_entries' = [t \in {k \in DOMAIN time_entries :
                                      time_entries[k].issue_id \notin gone}
                              |-> time_entries[t]]
       /\ sessions' = [k \in DOMAIN sessions |->
                          IF sessions[k].active_issue_id # None
                             /\ sessions[k].active_issue_id[1] \in gone
                          THEN [sessions[k] EXCEPT !.active_issue_id = None]
                          ELSE sessions[k]]
       /\ ret' = OkBool(Exists(id))
       /\ UNCHANGED <<seq, now, comment_seq, milestones, milestone_seq,
                      session_seq, txn, input_file, user_version, search, time_seq>>

delete_issue_keeps_blocker_edges(id) ==
    LET gone == IF Exists(id) THEN Descendants({id}) ELSE {}
    IN /\ issues' = Without(gone)
       /\ deps' = {e \in deps : e[2] \notin gone}
       /\ labels' = {l \in labels : l[1] \notin gone}
       /\ comments' = [c \in {k \in DOMAIN comments : comments[k].issue_id \notin gone}
                           |-> comments[c]]
       /\ relations' = {r \in relations : r[1] \notin gone /\ r[2] \notin gone}
       /\ milestone_issues' = {m \in milestone_issues : m[2] \notin gone}
       /\ time_entries' = [t \in {k \in DOMAIN time_entries :
                                      time_entries[k].issue_id \notin gone}
                              |-> time_entries[t]]
       /\ sessions' = [k \in DOMAIN sessions |->
                          IF sessions[k].active_issue_id # None
                             /\ sessions[k].active_issue_id[1] \in gone
                          THEN [sessions[k] EXCEPT !.active_issue_id = None]
                          ELSE sessions[k]]
       /\ ret' = OkBool(Exists(id))
       /\ UNCHANGED <<seq, now, comment_seq, milestones, milestone_seq,
                      session_seq, txn, input_file, user_version, search, time_seq>>

delete_issue_keeps_session_issue(id) ==
    LET gone == IF Exists(id) THEN Descendants({id}) ELSE {}
    IN /\ issues' = Without(gone)
       /\ deps' = {e \in deps : e[1] \notin gone /\ e[2] \notin gone}
       /\ labels' = {l \in labels : l[1] \notin gone}
       /\ comments' = [c \in {k \in DOMAIN comments : comments[k].issue_id \notin gone}
                           |-> comments[c]]
       /\ relations' = {r \in relations : r[1] \notin gone /\ r[2] \notin gone}
       /\ milestone_issues' = {m \in milestone_issues : m[2] \notin gone}
       /\ time_entries' = [t \in {k \in DOMAIN time_entries :
                                      time_entries[k].issue_id \notin gone}
                              |-> time_entries[t]]
       /\ ret' = OkBool(Exists(id))
       /\ UNCHANGED <<seq, now, comment_seq, milestones, milestone_seq, sessions,
                      session_seq, txn, input_file, user_version, search, time_seq>>

delete_issue(id) ==
    LET gone == IF Exists(id) THEN Descendants({id}) ELSE {}
    IN /\ issues' = Without(gone)
       /\ deps' = {e \in deps : e[1] \notin gone /\ e[2] \notin gone}
       /\ labels' = {l \in labels : l[1] \notin gone}
       /\ comments' = [c \in {k \in DOMAIN comments : comments[k].issue_id \notin gone}
                           |-> comments[c]]
       /\ relations' = {r \in relations : r[1] \notin gone /\ r[2] \notin gone}
       /\ milestone_issues' = {m \in milestone_issues : m[2] \notin gone}
       /\ time_entries' = [t \in {k \in DOMAIN time_entries :
                                      time_entries[k].issue_id \notin gone}
                              |-> time_entries[t]]
       /\ sessions' = [k \in DOMAIN sessions |->
                          IF sessions[k].active_issue_id # None
                             /\ sessions[k].active_issue_id[1] \in gone
                          THEN [sessions[k] EXCEPT !.active_issue_id = None]
                          ELSE sessions[k]]
       /\ ret' = OkBool(Exists(id))
       /\ UNCHANGED <<seq, now, comment_seq, milestones, milestone_seq,
                      session_seq, txn, input_file, user_version, search, time_seq>>

----------------------------------------------------------------------------
(* Archiving *)

\* A faulty variant of archive_issue: WHERE id = ?2 without AND status = 'closed'.
archive_issue_any_status(id) ==
    /\ issues' = IF Exists(id)
                 THEN [issues EXCEPT ![id].status = "archived",
                                     ![id].updated_at = now]
                 ELSE issues
    /\ ret' = OkBool(Exists(id))
    /\ UNCHANGED <<deps, seq, now, side>>

archive_issue(id) ==
    LET hit == Exists(id) /\ issues[id].status = "closed"
    IN /\ issues' = IF hit
                    THEN [issues EXCEPT ![id].status = "archived",
                                        ![id].updated_at = now]
                    ELSE issues
       /\ ret' = OkBool(hit)
       /\ UNCHANGED <<deps, seq, now, side>>

\* A faulty variant of unarchive_issue: WHERE id = ?2 without AND status = 'archived'.
unarchive_issue_any_status(id) ==
    /\ issues' = IF Exists(id)
                 THEN [issues EXCEPT ![id].status = "closed",
                                     ![id].updated_at = now]
                 ELSE issues
    /\ ret' = OkBool(Exists(id))
    /\ UNCHANGED <<deps, seq, now, side>>

unarchive_issue(id) ==
    LET hit == Exists(id) /\ issues[id].status = "archived"
    IN /\ issues' = IF hit
                    THEN [issues EXCEPT ![id].status = "closed",
                                        ![id].updated_at = now]
                    ELSE issues
       /\ ret' = OkBool(hit)
       /\ UNCHANGED <<deps, seq, now, side>>

\* A faulty variant of archive_older_than: closed_at <= ?2, which takes the issues
\* closed at the cutoff too.
archive_older_than_inclusive(days) ==
    LET cutoff == now - days
        hit == {i \in DOMAIN issues : /\ issues[i].status = "closed"
                                      /\ issues[i].closed_at # None
                                      /\ issues[i].closed_at[1] <= cutoff}
    IN /\ issues' = [i \in DOMAIN issues |->
                        IF i \in hit
                        THEN [issues[i] EXCEPT !.status = "archived",
                                               !.updated_at = now]
                        ELSE issues[i]]
       /\ ret' = OkInt(Cardinality(hit))
       /\ UNCHANGED <<deps, seq, now, side>>

archive_older_than(days) ==
    LET cutoff == now - days
        hit == {i \in DOMAIN issues : /\ issues[i].status = "closed"
                                      /\ issues[i].closed_at # None
                                      /\ issues[i].closed_at[1] < cutoff}
    IN /\ issues' = [i \in DOMAIN issues |->
                        IF i \in hit
                        THEN [issues[i] EXCEPT !.status = "archived",
                                               !.updated_at = now]
                        ELSE issues[i]]
       /\ ret' = OkInt(Cardinality(hit))
       /\ UNCHANGED <<deps, seq, now, side>>

----------------------------------------------------------------------------
(* Subissues, labels, comments, relations, milestones *)

create_subissue(parent_id, title, description, priority) ==
    create_issue_with_parent(title, description, priority, Some(parent_id))

\* UPDATE issues SET parent_id = ?1, updated_at = ?2 WHERE id = ?3; the foreign key
\* of parent_id fails the statement when a row is written with the id of no issue.
update_parent(id, parent_id) ==
    IF Exists(id) /\ parent_id # None /\ ~Exists(parent_id[1])
    THEN /\ ret' = Err("FOREIGN KEY constraint failed")
         /\ UNCHANGED <<issues, deps, seq, now, side>>
    ELSE /\ issues' = [i \in DOMAIN issues |->
                          IF i = id
                          THEN [issues[i] EXCEPT !.parent_id = parent_id,
                                                 !.updated_at = now]
                          ELSE issues[i]]
         /\ ret' = OkBool(Exists(id))
         /\ UNCHANGED <<deps, seq, now, side>>

\* A faulty variant of add_label: a plain INSERT, which the primary key fails.
add_label_plain_insert(issue_id, label) ==
    /\ IF ~Exists(issue_id)
       THEN ret' = Err("FOREIGN KEY constraint failed") /\ labels' = labels
       ELSE IF <<issue_id, label>> \in labels
       THEN ret' = Err("UNIQUE constraint failed") /\ labels' = labels
       ELSE /\ labels' = labels \cup {<<issue_id, label>>}
            /\ ret' = OkBool(TRUE)
    /\ UNCHANGED <<issues, deps, seq, now, comments, comment_seq, relations, milestones,
                   milestone_seq, milestone_issues, sessions,
                   session_seq, txn, input_file, user_version, search,
                   time_entries, time_seq>>

\* INSERT OR IGNORE INTO labels: the primary key (issue_id, label) makes a second
\* insert of the pair a no-op; the foreign key fails it for the id of no issue.
add_label(issue_id, label) ==
    /\ IF ~Exists(issue_id)
       THEN ret' = Err("FOREIGN KEY constraint failed") /\ labels' = labels
       ELSE /\ labels' = labels \cup {<<issue_id, label>>}
            /\ ret' = OkBool(<<issue_id, label>> \notin labels)
    /\ UNCHANGED <<issues, deps, seq, now, comments, comment_seq, relations, milestones,
                   milestone_seq, milestone_issues, sessions,
                   session_seq, txn, input_file, user_version, search,
                   time_entries, time_seq>>

remove_label(issue_id, label) ==
    /\ labels' = labels \ {<<issue_id, label>>}
    /\ ret' = OkBool(<<issue_id, label>> \in labels)
    /\ UNCHANGED <<issues, deps, seq, now, comments, comment_seq, relations, milestones,
                   milestone_seq, milestone_issues, sessions,
                   session_seq, txn, input_file, user_version, search,
                   time_entries, time_seq>>

add_comment(issue_id, content) ==
    /\ IF ~Exists(issue_id)
       THEN /\ ret' = Err("FOREIGN KEY constraint failed")
            /\ UNCHANGED <<comments, comment_seq>>
       ELSE /\ comment_seq' = comment_seq + 1
            /\ comments' = [c \in (DOMAIN comments) \cup {comment_seq + 1} |->
                               IF c = comment_seq + 1
                               THEN [issue_id |-> issue_id, content |-> content,
                                     created_at |-> now]
                               ELSE comments[c]]
            /\ ret' = OkInt(comment_seq + 1)
    /\ UNCHANGED <<issues, deps, seq, now, labels, relations, milestones,
                   milestone_seq, milestone_issues, sessions,
                   session_seq, txn, input_file, user_version, search,
                   time_entries, time_seq>>

\* The pair of a relation as it is stored: the smaller id first.
relation_pair(issue_id_1, issue_id_2) ==
    IF issue_id_1 < issue_id_2 THEN <<issue_id_1, issue_id_2>>
                               ELSE <<issue_id_2, issue_id_1>>

Related(a, b) == \E r \in relations : r[1] = a /\ r[2] = b

\* A faulty variant of add_relation: the pair is stored in the order given.
add_relation_as_given(issue_id_1, issue_id_2) ==
    /\ IF issue_id_1 = issue_id_2
       THEN ret' = Err("Cannot relate an issue to itself") /\ relations' = relations
       ELSE IF ~Exists(issue_id_1) \/ ~Exists(issue_id_2)
       THEN ret' = Err("FOREIGN KEY constraint failed") /\ relations' = relations
       ELSE IF Related(issue_id_1, issue_id_2)
       THEN ret' = OkBool(FALSE) /\ relations' = relations
       ELSE /\ relations' = relations \cup {<<issue_id_1, issue_id_2, now>>}
            /\ ret' = OkBool(TRUE)
    /\ UNCHANGED <<issues, deps, seq, now, labels, comments, comment_seq, milestones,
                   milestone_seq, milestone_issues, sessions,
                   session_seq, txn, input_file, user_version, search,
                   time_entries, time_seq>>

\* The self-relation test, then INSERT OR IGNORE of the ordered pair, which the
\* primary key (issue_id_1, issue_id_2) makes a no-op for a pair already stored.
add_relation(issue_id_1, issue_id_2) ==
    LET pair == relation_pair(issue_id_1, issue_id_2)
    IN /\ IF issue_id_1 = issue_id_2
          THEN ret' = Err("Cannot relate an issue to itself") /\ relations' = relations
          ELSE IF ~Exists(issue_id_1) \/ ~Exists(issue_id_2)
          THEN ret' = Err("FOREIGN KEY constraint failed") /\ relations' = relations
          ELSE IF Related(pair[1], pair[2])
          THEN ret' = OkBool(FALSE) /\ relations' = relations
          ELSE /\ relations' = relations \cup {<<pair[1], pair[2], now>>}
               /\ ret' = OkBool(TRUE)
       /\ UNCHANGED <<issues, deps, seq, now, labels, comments, comment_seq, milestones,
                      milestone_seq, milestone_issues, sessions,
                      session_seq, txn, input_file, user_version, search,
                      time_entries, time_seq>>

remove_relation(issue_id_1, issue_id_2) ==
    LET pair == relation_pair(issue_id_1, issue_id_2)
    IN /\ relations' = {r \in relations : ~(r[1] = pair[1] /\ r[2] = pair[2])}
       /\ ret' = OkBool(Related(pair[1], pair[2]))
       /\ UNCHANGED <<issues, deps, seq, now, labels, comments, comment_seq, milestones,
                      milestone_seq, milestone_issues, sessions,
                      session_seq, txn, input_file, user_version, search,
                      time_entries, time_seq>>

create_milestone(name, description) ==
    /\ milestone_seq' = milestone_seq + 1
    /\ milestones' = [m \in (DOMAIN milestones) \cup {milestone_seq + 1} |->
                         IF m = milestone_seq + 1
                         THEN [name |-> name, description |-> description,
                               status |-> "open", created_at |-> now,
                               closed_at |-> None]
                         ELSE milestones[m]]
    /\ ret' = OkInt(milestone_seq + 1)
    /\ UNCHANGED <<issues, deps, seq, now, labels, comments, comment_seq, relations,
                   milestone_issues, sessions, session_seq, txn, input_file, user_version, search,
                   time_entries, time_seq>>

add_issue_to_milestone(milestone_id, issue_id) ==
    /\ IF milestone_id \notin DOMAIN milestones \/ ~Exists(issue_id)
       THEN /\ ret' = Err("FOREIGN KEY constraint failed")
            /\ milestone_issues' = milestone_issues
       ELSE /\ milestone_issues' = milestone_issues \cup {<<milestone_id, issue_id>>}
            /\ ret' = OkBool(<<milestone_id, issue_id>> \notin milestone_issues)
    /\ UNCHANGED <<issues, deps, seq, now, labels, comments, comment_seq, relations,
                   milestones, milestone_seq, sessions,
                   session_seq, txn, input_file, user_version, search,
                   time_entries, time_seq>>

----------------------------------------------------------------------------
(* Query results.  A query reads the tables of the Database it is called on: *)
(* `self` is db, the tables as they are, or db', the tables after a call.     *)

db == [issues |-> issues, deps |-> deps, labels |-> labels, comments |-> comments,
       relations |-> relations, milestones |-> milestones,
       milestone_issues |-> milestone_issues, sessions |-> sessions]

\* issue_from_row: the Issue a SELECT of row i yields.
issue_from_row(self, i) ==
    [id |-> i, title |-> self.issues[i].title,
     description |-> self.issues[i].description,
     status |-> self.issues[i].status, priority |-> self.issues[i].priority,
     parent_id |-> self.issues[i].parent_id,
     created_at |-> self.issues[i].created_at,
     updated_at |-> self.issues[i].updated_at,
     closed_at |-> self.issues[i].closed_at]

get_issue(self, id) ==
    IF id \in DOMAIN self.issues THEN Some(issue_from_row(self, id)) ELSE None

\* The elements of a finite set of integers in ascending order (ORDER BY).
RECURSIVE Ascending(_)
Ascending(S) ==
    IF S = {} THEN <<>>
    ELSE LET m == CHOOSE x \in S : \A y \in S : x <= y
         IN <<m>> \o Ascending(S \ {m})

\* The elements of a finite set of integers in descending order (ORDER BY ... DESC).
RECURSIVE Descending(_)
Descending(S) ==
    IF S = {} THEN <<>>
    ELSE LET m == CHOOSE x \in S : \A y \in S : y <= x
         IN <<m>> \o Descending(S \ {m})

\* FROM issues i, with JOIN labels l ON i.id = l.issue_id when there is a label
\* filter: the rows of the join as <<issue id, label>>; without the join, one row
\* an issue.
list_join(self, label_filter) ==
    IF label_filter # None
    THEN {<<l[1], l[2]>> : l \in {x \in self.labels : x[1] \in DOMAIN self.issues}}
    ELSE {<<i, "">> : i \in DOMAIN self.issues}

\* A faulty variant of list_issues: "all" is taken for a status like the others.
list_issues_all_is_a_status(self, status_filter, label_filter, priority_filter) ==
    LET kept == {r \in list_join(self, label_filter) :
                    /\ status_filter # None
                          => self.issues[r[1]].status = status_filter[1]
                    /\ label_filter # None => r[2] = label_filter[1]
                    /\ priority_filter # None
                          => self.issues[r[1]].priority = priority_filter[1]}
        order == Descending({r[1] : r \in kept})
    IN [k \in 1..Len(order) |-> issue_from_row(self, order[k])]

\* SELECT DISTINCT i.* FROM issues i [JOIN labels l ...] [WHERE the conditions of
\* the filters given, a status filter of "all" giving none] ORDER BY i.id DESC
list_issues(self, status_filter, label_filter, priority_filter) ==
    LET kept == {r \in list_join(self, label_filter) :
                    /\ (status_filter # None /\ status_filter[1] # "all")
                          => self.issues[r[1]].status = status_filter[1]
                    /\ label_filter # None => r[2] = label_filter[1]
                    /\ priority_filter # None
                          => self.issues[r[1]].priority = priority_filter[1]}
        order == Descending({r[1] : r \in kept})
    IN [k \in 1..Len(order) |-> issue_from_row(self, order[k])]

\* Text that is searched is a sequence of characters, each a string of length one.
\* sqlite3Tolower: LIKE folds the 26 upper case ASCII letters and nothing else.
Tolower(c) ==
    CASE c = "A" -> "a"
      [] c = "B" -> "b"
      [] OTHER -> c

\* query.replace('%', "\\%").replace('_', "\\_"): a backslash goes before every
\* percent sign and every underscore; every other character is copied, the
\* backslash too.
RECURSIVE escape_wildcards(_)
escape_wildcards(query) ==
    IF query = <<>> THEN <<>>
    ELSE (IF Head(query) \in {"%", "_"} THEN <<"\\", Head(query)>> ELSE <<Head(query)>>)
             \o escape_wildcards(Tail(query))

\* text LIKE pattern ESCAPE '\': % matches any run of characters, _ any one
\* character, the escape character followed by a character that character, the
\* escape character at the end of the pattern nothing, and any other character
\* itself, letters compared without their case.
RECURSIVE Like(_, _)
Like(pattern, text) ==
    IF pattern = <<>> THEN text = <<>>
    ELSE CASE Head(pattern) = "%" ->
                  \E k \in 0..Len(text) :
                      Like(Tail(pattern), SubSeq(text, k + 1, Len(text)))
           [] Head(pattern) = "_" ->
                  text # <<>> /\ Like(Tail(pattern), Tail(text))
           [] Head(pattern) = "\\" ->
                  /\ Len(pattern) >= 2
                  /\ text # <<>>
                  /\ Tolower(pattern[2]) = Tolower(Head(text))
                  /\ Like(Tail(Tail(pattern)), Tail(text))
           [] OTHER ->
                  /\ text # <<>>
                  /\ Tolower(Head(pattern)) = Tolower(Head(text))
                  /\ Like(Tail(pattern), Tail(text))

\* SELECT DISTINCT i.* FROM issues i LEFT JOIN comments c ON i.id = c.issue_id
\* WHERE i.title LIKE ?1 OR i.description LIKE ?1 OR c.content LIKE ?1
\* ORDER BY i.id DESC, with ?1 the escaped query between two percent signs.  A
\* NULL description matches nothing.
search_issues(self, query) ==
    LET pattern == <<"%">> \o escape_wildcards(query) \o <<"%">>
        hit == {i \in DOMAIN self.issues :
                   \/ Like(pattern, self.issues[i].title)
                   \/ /\ self.issues[i].description # None
                      /\ Like(pattern, self.issues[i].description[1])
                   \/ \E c \in DOMAIN self.comments :
                         /\ self.comments[c].issue_id = i
                         /\ Like(pattern, self.comments[c].content)}
        order == Descending(hit)
    IN [k \in 1..Len(order) |-> issue_from_row(self, order[k])]

\* SELECT i.* FROM issues i WHERE i.id IN (SELECT issue_id_2 FROM relations WHERE
\* issue_id_1 = ?1 UNION SELECT issue_id_1 FROM relations WHERE issue_id_2 = ?1)
\* ORDER BY i.id
get_related_issues(self, issue_id) ==
    LET ids == {r[2] : r \in {x \in self.relations : x[1] = issue_id}}
                   \cup {r[1] : r \in {x \in self.relations : x[2] = issue_id}}
        order == Ascending(ids \cap DOMAIN self.issues)
    IN [k \in 1..Len(order) |-> issue_from_row(self, order[k])]

\* SELECT ... FROM issues WHERE parent_id = ?1 ORDER BY id
get_subissues(self, parent_id) ==
    LET order == Ascending({i \in DOMAIN self.issues :
                               self.issues[i].parent_id = Some(parent_id)})
    IN [k \in 1..Len(order) |-> issue_from_row(self, order[k])]

\* The comment ids in S ordered by created_at (ORDER BY created_at).  The
\* timestamps are RFC 3339 strings in UTC, which compare as the times do.  Rows
\* with equal timestamps come out in the order of the scan, by rowid: the sorter
\* keeps the order of its input among equal keys.
RECURSIVE ByCreatedAt(_, _)
ByCreatedAt(self, S) ==
    IF S = {} THEN <<>>
    ELSE LET m == CHOOSE x \in S : \A y \in S :
                      \/ self.comments[x].created_at < self.comments[y].created_at
                      \/ /\ self.comments[x].created_at = self.comments[y].created_at
                         /\ x <= y
         IN <<m>> \o ByCreatedAt(self, S \ {m})

\* The comment ids in S with the latest first.
RECURSIVE ByCreatedAtDesc(_, _)
ByCreatedAtDesc(self, S) ==
    IF S = {} THEN <<>>
    ELSE LET m == CHOOSE x \in S : \A y \in S :
                      \/ self.comments[x].created_at > self.comments[y].created_at
                      \/ /\ self.comments[x].created_at = self.comments[y].created_at
                         /\ x >= y
         IN <<m>> \o ByCreatedAtDesc(self, S \ {m})

\* A faulty variant of get_comments: the latest comment comes first.
get_comments_latest_first(self, issue_id) ==
    LET order == ByCreatedAtDesc(self, {c \in DOMAIN self.comments :
                                           self.comments[c].issue_id = issue_id})
    IN [k \in 1..Len(order) |->
           [id |-> order[k], issue_id |-> issue_id,
            content |-> self.comments[order[k]].content,
            created_at |-> self.comments[order[k]].created_at]]

\* SELECT id, issue_id, content, created_at FROM comments WHERE issue_id = ?1
\* ORDER BY created_at
get_comments(self, issue_id) ==
    LET order == ByCreatedAt(self, {c \in DOMAIN self.comments :
                                       self.comments[c].issue_id = issue_id})
    IN [k \in 1..Len(order) |->
           [id |-> order[k], issue_id |-> issue_id,
            content |-> self.comments[order[k]].content,
            created_at |-> self.comments[order[k]].created_at]]

\* The ids of a sequence of rows, and the set of them.
IdsOf(rows) == [k \in 1..Len(rows) |-> rows[k].id]
IdSet(rows) == {rows[k].id : k \in 1..Len(rows)}

----------------------------------------------------------------------------
(* Dependencies *)

get_blockers(self, issue_id) ==
    Ascending({e[1] : e \in {d \in self.deps : d[2] = issue_id}})

get_blocking(self, issue_id) ==
    Ascending({e[2] : e \in {d \in self.deps : d[1] = issue_id}})

\* The loop of would_create_cycle: `stack` is popped at its end, `visited` is the
\* HashSet, and the blocked issues of `current` not yet visited are pushed.
RECURSIVE cycle_search(_, _, _, _)
cycle_search(self, stack, visited, blocker_id) ==
    IF stack = <<>> THEN FALSE
    ELSE LET current == stack[Len(stack)]
             rest == SubSeq(stack, 1, Len(stack) - 1)
         IN IF current = blocker_id THEN TRUE
            ELSE IF current \notin visited
                 THEN LET seen == visited \cup {current}
                          blocking == get_blocking(self, current)
                          push == SelectSeq(blocking, LAMBDA n : n \notin seen)
                      IN cycle_search(self, rest \o push, seen, blocker_id)
                 ELSE cycle_search(self, rest, visited, blocker_id)

\* Faulty variants of would_create_cycle: the search run from the wrong end, and
\* a check of the immediate edge only.
would_create_cycle_reversed(self, blocked_id, blocker_id) ==
    cycle_search(self, <<blocker_id>>, {}, blocked_id)

would_create_cycle_direct(self, blocked_id, blocker_id) ==
    <<blocked_id, blocker_id>> \in self.deps

would_create_cycle(self, blocked_id, blocker_id) ==
    cycle_search(self, <<blocked_id>>, {}, blocker_id)

\* Faulty variants of add_dependency: the self-block test left out, and a plain
\* INSERT in place of INSERT OR IGNORE.
add_dependency_no_self_test(blocked_id, blocker_id) ==
    IF would_create_cycle(db, blocked_id, blocker_id)
    THEN /\ ret' = Err("Adding this dependency would create a circular dependency chain")
         /\ UNCHANGED <<issues, deps, seq, now, side>>
    ELSE IF ~Exists(blocker_id) \/ ~Exists(blocked_id)
    THEN /\ ret' = Err("FOREIGN KEY constraint failed")
         /\ UNCHANGED <<issues, deps, seq, now, side>>
    ELSE /\ deps' = deps \cup {<<blocker_id, blocked_id>>}
         /\ ret' = OkBool(<<blocker_id, blocked_id>> \notin deps)
         /\ UNCHANGED <<issues, seq, now, side>>

add_dependency_plain_insert(blocked_id, blocker_id) ==
    IF blocked_id = blocker_id
    THEN /\ ret' = Err("An issue cannot block itself")
         /\ UNCHANGED <<issues, deps, seq, now, side>>
    ELSE IF would_create_cycle(db, blocked_id, blocker_id)
    THEN /\ ret' = Err("Adding this dependency would create a circular dependency chain")
         /\ UNCHANGED <<issues, deps, seq, now, side>>
    ELSE IF ~Exists(blocker_id) \/ ~Exists(blocked_id)
    THEN /\ ret' = Err("FOREIGN KEY constraint failed")
         /\ UNCHANGED <<issues, deps, seq, now, side>>
    ELSE IF <<blocker_id, blocked_id>> \in deps
    THEN /\ ret' = Err("UNIQUE constraint failed")
         /\ UNCHANGED <<issues, deps, seq, now, side>>
    ELSE /\ deps' = deps \cup {<<blocker_id, blocked_id>>}
         /\ ret' = OkBool(TRUE)
         /\ UNCHANGED <<issues, seq, now, side>>

\* The self-block test, the cycle test, then INSERT OR IGNORE, which the foreign
\* keys of the dependencies table fail for an id of no issue.
add_dependency(blocked_id, blocker_id) ==
    IF blocked_id = blocker_id
    THEN /\ ret' = Err("An issue cannot block itself")
         /\ UNCHANGED <<issues, deps, seq, now, side>>
    ELSE IF would_create_cycle(db, blocked_id, blocker_id)
    THEN /\ ret' = Err("Adding this dependency would create a circular dependency chain")
         /\ UNCHANGED <<issues, deps, seq, now, side>>
    ELSE IF ~Exists(blocker_id) \/ ~Exists(blocked_id)
    THEN /\ ret' = Err("FOREIGN KEY constraint failed")
         /\ UNCHANGED <<issues, deps, seq, now, side>>
    ELSE /\ deps' = deps \cup {<<blocker_id, blocked_id>>}
         /\ ret' = OkBool(<<blocker_id, blocked_id>> \notin deps)
         /\ UNCHANGED <<issues, seq, now, side>>

\* A faulty variant of remove_dependency: the DELETE names the blocked issue only
\* and removes the edges from all of its blockers.
remove_dependency_all_blockers(blocked_id, blocker_id) ==
    /\ deps' = {e \in deps : e[2] # blocked_id}
    /\ ret' = OkBool(\E e \in deps : e[2] = blocked_id)
    /\ UNCHANGED <<issues, seq, now, side>>

remove_dependency(blocked_id, blocker_id) ==
    /\ deps' = deps \ {<<blocker_id, blocked_id>>}
    /\ ret' = OkBool(<<blocker_id, blocked_id>> \in deps)
    /\ UNCHANGED <<issues, seq, now, side>>

\* FROM issues i JOIN dependencies d ON i.id = d.blocked_id
\*               JOIN issues blocker ON d.blocker_id = blocker.id
\* WHERE i.status = 'open' AND blocker.status = 'open': one row per edge.
blocked_join(self) ==
    {d \in self.deps : /\ d[2] \in DOMAIN self.issues
                       /\ d[1] \in DOMAIN self.issues
                       /\ self.issues[d[2]].status = "open"
                       /\ self.issues[d[1]].status = "open"}

\* A faulty variant of list_blocked_issues: SELECT without DISTINCT, one row per
\* row of the join.
list_blocked_issues_no_distinct(self) ==
    LET RECURSIVE rows_of(_)
        rows_of(ids) ==
            IF ids = <<>> THEN <<>>
            ELSE LET n == Cardinality({d \in blocked_join(self) : d[2] = ids[1]})
                 IN [k \in 1..n |-> issue_from_row(self, ids[1])] \o rows_of(Tail(ids))
    IN rows_of(Ascending({d[2] : d \in blocked_join(self)}))

\* SELECT DISTINCT i.* ... ORDER BY i.id
list_blocked_issues(self) ==
    LET distinct == {d[2] : d \in blocked_join(self)}
        order == Ascending(distinct)
    IN [k \in 1..Len(order) |-> issue_from_row(self, order[k])]

\* Faulty variants of list_ready_issues: the subquery tests blocker.status !=
\* 'closed', and the subquery does not look at the blocker's status at all.
list_ready_issues_not_closed(self) ==
    LET rows == {i \in DOMAIN self.issues :
                    /\ self.issues[i].status = "open"
                    /\ ~ \E d \in self.deps : /\ d[1] \in DOMAIN self.issues
                                              /\ d[2] = i
                                              /\ self.issues[d[1]].status # "closed"}
        order == Ascending(rows)
    IN [k \in 1..Len(order) |-> issue_from_row(self, order[k])]

list_ready_issues_any_blocker(self) ==
    LET rows == {i \in DOMAIN self.issues :
                    /\ self.issues[i].status = "open"
                    /\ ~ \E d \in self.deps : d[2] = i}
        order == Ascending(rows)
    IN [k \in 1..Len(order) |-> issue_from_row(self, order[k])]

\* SELECT i.* FROM issues i WHERE i.status = 'open' AND NOT EXISTS (SELECT 1 FROM
\* dependencies d JOIN issues blocker ON d.blocker_id = blocker.id
\* WHERE d.blocked_id = i.id AND blocker.status = 'open') ORDER BY i.id
list_ready_issues(self) ==
    LET rows == {i \in DOMAIN self.issues :
                    /\ self.issues[i].status = "open"
                    /\ ~ \E d \in self.deps : /\ d[1] \in DOMAIN self.issues
                                              /\ d[2] = i
                                              /\ self.issues[d[1]].status = "open"}
        order == Ascending(rows)
    IN [k \in 1..Len(order) |-> issue_from_row(self, order[k])]

----------------------------------------------------------------------------
(* Sessions *)

\* Result<()>: Ok(()).
OkUnit == [kind |-> "Ok", ty |-> "unit", val |-> 0, msg |-> ""]

start_session ==
    /\ session_seq' = session_seq + 1
    /\ sessions' = [k \in (DOMAIN sessions) \cup {session_seq + 1} |->
                       IF k = session_seq + 1
                       THEN [started_at |-> now, ended_at |-> None,
                             active_issue_id |-> None, handoff_notes |-> None]
                       ELSE sessions[k]]
    /\ ret' = OkInt(session_seq + 1)
    /\ UNCHANGED <<issues, deps, seq, now, labels, comments, comment_seq, relations,
                   milestones, milestone_seq,
                   milestone_issues, txn, input_file, user_version, search,
                   time_entries, time_seq>>

end_session(id, notes) ==
    /\ sessions' = [k \in DOMAIN sessions |->
                       IF k = id
                       THEN [sessions[k] EXCEPT !.ended_at = Some(now),
                                                !.handoff_notes = notes]
                       ELSE sessions[k]]
    /\ ret' = OkBool(id \in DOMAIN sessions)
    /\ UNCHANGED <<issues, deps, seq, now, labels, comments, comment_seq, relations,
                   milestones, milestone_seq, milestone_issues,
                   session_seq, txn, input_file, user_version, search,
                   time_entries, time_seq>>

\* The row of sessions with the given id, as a Session.
session_from_row(self, k) ==
    [id |-> k, started_at |-> self.sessions[k].started_at,
     ended_at |-> self.sessions[k].ended_at,
     active_issue_id |-> self.sessions[k].active_issue_id,
     handoff_notes |-> self.sessions[k].handoff_notes]

\* The greatest element of a non-empty set of ids (ORDER BY id DESC LIMIT 1).
Greatest(S) == CHOOSE x \in S : \A y \in S : y <= x

\* ... WHERE ended_at IS NULL ORDER BY id DESC LIMIT 1
get_current_session(self) ==
    LET open == {k \in DOMAIN self.sessions : self.sessions[k].ended_at = None}
    IN IF open = {} THEN None ELSE Some(session_from_row(self, Greatest(open)))

\* ... WHERE ended_at IS NOT NULL ORDER BY id DESC LIMIT 1
get_last_session(self) ==
    LET ended == {k \in DOMAIN self.sessions : self.sessions[k].ended_at # None}
    IN IF ended = {} THEN None ELSE Some(session_from_row(self, Greatest(ended)))

\* UPDATE sessions SET active_issue_id = ?1 WHERE id = ?2; the foreign key of
\* active_issue_id fails the statement when a row is written with the id of no issue.
set_session_issue(session_id, issue_id) ==
    /\ IF session_id \in DOMAIN sessions /\ ~Exists(issue_id)
       THEN ret' = Err("FOREIGN KEY constraint failed") /\ sessions' = sessions
       ELSE /\ sessions' = [k \in DOMAIN sessions |->
                               IF k = session_id
                               THEN [sessions[k] EXCEPT !.active_issue_id = Some(issue_id)]
                               ELSE sessions[k]]
            /\ ret' = OkBool(session_id \in DOMAIN sessions)
    /\ UNCHANGED <<issues, deps, seq, now, labels, comments, comment_seq, relations,
                   milestones, milestone_seq, milestone_issues,
                   session_seq, txn, input_file, user_version, search,
                   time_entries, time_seq>>

\* A faulty variant of start_timer: the row is inserted with the foreign keys
\* not enforced.
start_timer_no_foreign_keys(issue_id) ==
    /\ time_seq' = time_seq + 1
    /\ time_entries' = [k \in (DOMAIN time_entries) \cup {time_seq + 1} |->
                           IF k = time_seq + 1
                           THEN [issue_id |-> issue_id, started_at |-> now,
                                 ended_at |-> None, duration_seconds |-> None]
                           ELSE time_entries[k]]
    /\ ret' = OkInt(time_seq + 1)
    /\ UNCHANGED <<issues, deps, seq, now, labels, comments, comment_seq, relations,
                   milestones, milestone_seq, milestone_issues, sessions,
                   session_seq, txn, input_file, user_version, search>>

\* start_timer: INSERT INTO time_entries (issue_id, started_at); issue_id
\* REFERENCES issues(id).  Returns last_insert_rowid().
start_timer(issue_id) ==
    /\ IF ~Exists(issue_id)
       THEN /\ ret' = Err("FOREIGN KEY constraint failed")
            /\ UNCHANGED <<time_entries, time_seq>>
       ELSE /\ time_seq' = time_seq + 1
            /\ time_entries' = [k \in (DOMAIN time_entries) \cup {time_seq + 1} |->
                                   IF k = time_seq + 1
                                   THEN [issue_id |-> issue_id, started_at |-> now,
                                         ended_at |-> None, duration_seconds |-> None]
                                   ELSE time_entries[k]]
            /\ ret' = OkInt(time_seq + 1)
    /\ UNCHANGED <<issues, deps, seq, now, labels, comments, comment_seq, relations,
                   milestones, milestone_seq, milestone_issues, sessions,
                   session_seq, txn, input_file, user_version, search>>

\* A faulty variant of commands::session::start: no test for a current session.
session_start_unconditional ==
    /\ session_seq' = session_seq + 1
    /\ sessions' = [k \in (DOMAIN sessions) \cup {session_seq + 1} |->
                       IF k = session_seq + 1
                       THEN [started_at |-> now, ended_at |-> None,
                             active_issue_id |-> None, handoff_notes |-> None]
                       ELSE sessions[k]]
    /\ ret' = OkUnit
    /\ UNCHANGED <<issues, deps, seq, now, labels, comments, comment_seq, relations,
                   milestones, milestone_seq,
                   milestone_issues, txn, input_file, user_version, search,
                   time_entries, time_seq>>

\* commands::session::start: nothing is written while a session is current;
\* otherwise start_session, whose id is printed and not returned.
session_start ==
    IF get_current_session(db) # None
    THEN /\ ret' = OkUnit
         /\ UNCHANGED <<issues, deps, seq, now, side>>
    ELSE /\ session_seq' = session_seq + 1
         /\ sessions' = [k \in (DOMAIN sessions) \cup {session_seq + 1} |->
                            IF k = session_seq + 1
                            THEN [started_at |-> now, ended_at |-> None,
                                  active_issue_id |-> None, handoff_notes |-> None]
                            ELSE sessions[k]]
         /\ ret' = OkUnit
         /\ UNCHANGED <<issues, deps, seq, now, labels, comments, comment_seq, relations,
                        milestones, milestone_seq,
                        milestone_issues, txn, input_file, user_version, search,
                        time_entries, time_seq>>

\* commands::session::end: end_session on the current session, or the error.
session_end(notes) ==
    LET current == get_current_session(db)
    IN IF current = None
       THEN /\ ret' = Err("No active session")
            /\ UNCHANGED <<issues, deps, seq, now, side>>
       ELSE /\ sessions' = [k \in DOMAIN sessions |->
                               IF k = current[1].id
                               THEN [sessions[k] EXCEPT !.ended_at = Some(now),
                                                        !.handoff_notes = notes]
                               ELSE sessions[k]]
            /\ ret' = OkUnit
            /\ UNCHANGED <<issues, deps, seq, now, labels, comments, comment_seq,
                           relations, milestones, milestone_seq, milestone_issues,
                           session_seq, txn, input_file, user_version, search,
                           time_entries, time_seq>>

----------------------------------------------------------------------------
(* Database::transaction *)

\* What BEGIN TRANSACTION snapshots and ROLLBACK restores: every table, and the
\* sqlite_sequence rows with them.
tables ==
    [issues |-> issues, deps |-> deps, seq |-> seq, labels |-> labels,
     comments |-> comments, comment_seq |-> comment_seq, relations |-> relations,
     milestones |-> milestones, milestone_seq |-> milestone_seq,
     milestone_issues |-> milestone_issues, sessions |-> sessions,
     session_seq |-> session_seq, time_entries |-> time_entries,
     time_seq |-> time_seq]

\* The error of the body itself, as opposed to one a Database call handed it.
BodyError == Err("body failed")

\* self.conn.execute("BEGIN TRANSACTION", [])?: SQLite refuses a BEGIN inside a
\* transaction, and `?` returns that error before the body is called.
transaction_begin ==
    IF txn # None
    THEN /\ ret' = Err("cannot start a transaction within a transaction")
         /\ UNCHANGED <<issues, deps, seq, now, side>>
    ELSE /\ txn' = Some(tables)
         /\ ret' = OkInt(0)
         /\ UNCHANGED <<issues, deps, seq, now, labels, comments, comment_seq, relations,
                        milestones, milestone_seq, milestone_issues, sessions,
                        session_seq, input_file, user_version, search,
                        time_entries, time_seq>>

\* The arm Ok(result): COMMIT, and the body's result is returned.
transaction_commit(result) ==
    /\ txn # None
    /\ txn' = None
    /\ ret' = result
    /\ UNCHANGED <<issues, deps, seq, now, labels, comments, comment_seq, relations,
                   milestones, milestone_seq, milestone_issues,
                   sessions, session_seq, input_file, user_version, search,
                   time_entries, time_seq>>

\* A faulty variant of the Err arm: no ROLLBACK before the error is returned (the
\* writes stay, in a transaction left open).
transaction_rollback_keeps_writes(e) ==
    /\ txn # None
    /\ ret' = e
    /\ UNCHANGED <<issues, deps, seq, now, side>>

\* The arm Err(e): ROLLBACK, its own result dropped, and e is returned.
transaction_rollback(e) ==
    /\ txn # None
    /\ issues' = txn[1].issues
    /\ deps' = txn[1].deps
    /\ seq' = txn[1].seq
    /\ labels' = txn[1].labels
    /\ comments' = txn[1].comments
    /\ comment_seq' = txn[1].comment_seq
    /\ relations' = txn[1].relations
    /\ milestones' = txn[1].milestones
    /\ milestone_seq' = txn[1].milestone_seq
    /\ milestone_issues' = txn[1].milestone_issues
    /\ sessions' = txn[1].sessions
    /\ session_seq' = txn[1].session_seq
    /\ time_entries' = txn[1].time_entries
    /\ time_seq' = txn[1].time_seq
    /\ txn' = None
    /\ ret' = e
    /\ UNCHANGED <<now, input_file, user_version, search>>

----------------------------------------------------------------------------
(* commands::import::run_json *)

\* The calls the body of the import makes, each on the tables `t` of the open
\* transaction at the clock reading `at`.  The ids they are given are ids that
\* create_issue returned in the same transaction, so the foreign keys hold.
create_issue_in(t, title, description, priority, at) ==
    [t EXCEPT !.seq = t.seq + 1,
              !.issues = [i \in (DOMAIN t.issues) \cup {t.seq + 1} |->
                             IF i = t.seq + 1
                             THEN [title |-> title, description |-> description,
                                   status |-> "open", priority |-> priority,
                                   parent_id |-> None, created_at |-> at,
                                   updated_at |-> at, closed_at |-> None]
                             ELSE t.issues[i]]]

add_label_in(t, issue_id, label) ==
    [t EXCEPT !.labels = t.labels \cup {<<issue_id, label>>}]

add_comment_in(t, issue_id, content, at) ==
    [t EXCEPT !.comment_seq = t.comment_seq + 1,
              !.comments = [c \in (DOMAIN t.comments) \cup {t.comment_seq + 1} |->
                               IF c = t.comment_seq + 1
                               THEN [issue_id |-> issue_id, content |-> content,
                                     created_at |-> at]
                               ELSE t.comments[c]]]

close_issue_in(t, id, at) ==
    [t EXCEPT !.issues = [i \in DOMAIN t.issues |->
                             IF i = id
                             THEN [t.issues[i] EXCEPT !.status = "closed",
                                                      !.closed_at = Some(at),
                                                      !.updated_at = at]
                             ELSE t.issues[i]]]

update_parent_in(t, id, parent_id, at) ==
    [t EXCEPT !.issues = [i \in DOMAIN t.issues |->
                             IF i = id
                             THEN [t.issues[i] EXCEPT !.parent_id = parent_id,
                                                      !.updated_at = at]
                             ELSE t.issues[i]]]

\* The error of a call the storage fails (the disk is full, the file is locked).
StorageError == Err("disk I/O error")

\* One call of the body followed by `?`.  `s` is the state of the body: the tables,
\* the number of calls made, whether one has failed (the body has then returned
\* its error, and nothing more is called) and the HashMap id_map.  The call whose
\* number is fail_at is the one the storage fails; `t2` is what the call writes.
Call(s, fail_at, t2) ==
    IF s.failed THEN s
    ELSE IF s.calls + 1 = fail_at
    THEN [s EXCEPT !.calls = s.calls + 1, !.failed = TRUE]
    ELSE [s EXCEPT !.calls = s.calls + 1, !.t = t2]

\* for label in &issue.labels { db.add_label(id, label)?; }
RECURSIVE add_labels(_, _, _, _)
add_labels(s, fail_at, id, ls) ==
    IF ls = <<>> THEN s
    ELSE add_labels(Call(s, fail_at, add_label_in(s.t, id, Head(ls))),
                    fail_at, id, Tail(ls))

\* for comment in &issue.comments { db.add_comment(id, &comment.content)?; }
RECURSIVE add_comments(_, _, _, _, _)
add_comments(s, fail_at, id, cs, at) ==
    IF cs = <<>> THEN s
    ELSE add_comments(Call(s, fail_at, add_comment_in(s.t, id, Head(cs), at)),
                      fail_at, id, Tail(cs), at)

\* import_issue(db, issue, None), and the id_map.insert that follows it.
import_issue(s, fail_at, issue, at) ==
    LET s1 == Call(s, fail_at,
                   create_issue_in(s.t, issue.title, issue.description,
                                   issue.priority, at))
        id == s1.t.seq
        s2 == add_labels(s1, fail_at, id, issue.labels)
        s3 == add_comments(s2, fail_at, id, issue.comments, at)
        s4 == IF issue.status = "closed"
              THEN Call(s3, fail_at, close_issue_in(s3.t, id, at))
              ELSE s3
    IN IF s4.failed THEN s4
       ELSE [s4 EXCEPT !.id_map = [o \in (DOMAIN s4.id_map) \cup {issue.id} |->
                                      IF o = issue.id THEN id ELSE s4.id_map[o]]]

\* First pass: create all issues without parent relationships.
RECURSIVE first_pass(_, _, _, _)
first_pass(s, fail_at, data, at) ==
    IF data = <<>> THEN s
    ELSE first_pass(import_issue(s, fail_at, Head(data), at), fail_at, Tail(data), at)

\* A faulty variant of second_pass: the parent is linked only when it was
\* imported before the issue, as an import in one pass would do.
RECURSIVE second_pass_earlier_parents(_, _, _, _)
second_pass_earlier_parents(s, fail_at, data, at) ==
    IF data = <<>> \/ s.failed THEN s
    ELSE LET issue == Head(data)
             relink == /\ issue.parent_id # None
                       /\ issue.parent_id[1] \in DOMAIN s.id_map
                       /\ issue.id \in DOMAIN s.id_map
                       /\ s.id_map[issue.parent_id[1]] < s.id_map[issue.id]
             s1 == IF relink
                   THEN Call(s, fail_at,
                             update_parent_in(s.t, s.id_map[issue.id],
                                              Some(s.id_map[issue.parent_id[1]]), at))
                   ELSE s
         IN second_pass_earlier_parents(s1, fail_at, Tail(data), at)

\* Second pass: update_parent for each issue whose old parent id is in id_map.
RECURSIVE second_pass(_, _, _, _)
second_pass(s, fail_at, data, at) ==
    IF data = <<>> \/ s.failed THEN s
    ELSE LET issue == Head(data)
             relink == /\ issue.parent_id # None
                       /\ issue.parent_id[1] \in DOMAIN s.id_map
                       /\ issue.id \in DOMAIN s.id_map
             s1 == IF relink
                   THEN Call(s, fail_at,
                             update_parent_in(s.t, s.id_map[issue.id],
                                              Some(s.id_map[issue.parent_id[1]]), at))
                   ELSE s
         IN second_pass(s1, fail_at, Tail(data), at)

\* The body of the transaction, from the tables as they are at BEGIN.
import_body(fail_at) ==
    LET s0 == [t |-> tables, calls |-> 0, failed |-> FALSE, id_map |-> <<>>]
    IN second_pass(first_pass(s0, fail_at, input_file[1], now),
                   fail_at, input_file[1], now)

\* A faulty variant of run_json: the body is run without db.transaction, so that
\* what it wrote before the failing call stays.
run_json_no_transaction(fail_at) ==
    IF input_file = None
    THEN /\ ret' = Err("Failed to read import file")
         /\ UNCHANGED <<issues, deps, seq, now, side>>
    ELSE LET s == import_body(fail_at)
         IN /\ issues' = s.t.issues
            /\ seq' = s.t.seq
            /\ labels' = s.t.labels
            /\ comments' = s.t.comments
            /\ comment_seq' = s.t.comment_seq
            /\ ret' = IF s.failed THEN StorageError ELSE OkUnit
            /\ UNCHANGED <<deps, now, relations, milestones, milestone_seq,
                           milestone_issues, sessions,
                           session_seq, txn, input_file, user_version, search,
                           time_entries, time_seq>>

\* run_json: the file is read, and the whole import runs in db.transaction:
\* BEGIN (refused inside a transaction), the body, then COMMIT when the body
\* returned Ok and ROLLBACK, which puts the tables back as of BEGIN, when a call
\* of it returned Err.
run_json(fail_at) ==
    IF input_file = None
    THEN /\ ret' = Err("Failed to read import file")
         /\ UNCHANGED <<issues, deps, seq, now, side>>
    ELSE IF txn # None
    THEN /\ ret' = Err("cannot start a transaction within a transaction")
         /\ UNCHANGED <<issues, deps, seq, now, side>>
    ELSE LET s == import_body(fail_at)
         IN IF s.failed
            THEN /\ ret' = StorageError
                 /\ UNCHANGED <<issues, deps, seq, now, side>>
            ELSE /\ issues' = s.t.issues
                 /\ seq' = s.t.seq
                 /\ labels' = s.t.labels
                 /\ comments' = s.t.comments
                 /\ comment_seq' = s.t.comment_seq
                 /\ ret' = OkUnit
                 /\ UNCHANGED <<deps, now, relations, milestones, milestone_seq,
                                milestone_issues, sessions,
                                session_seq, txn, input_file, user_version, search,
                                time_entries, time_seq>>

\* The import file is written (by export, or by hand).
write_file(data) ==
    /\ input_file' = Some(data)
    /\ UNCHANGED <<issues, deps, seq, now, ret, labels, comments, comment_seq, relations,
                   milestones, milestone_seq, milestone_issues, sessions, session_seq,
                   txn, user_version, search, time_entries, time_seq>>

----------------------------------------------------------------------------
(* The store after Database::open on a fresh file, and its clock *)

\* A faulty variant of the command session work: the session taken is the last
\* one started, whether it has ended or not.
session_work_last_session(issue_id) ==
    IF DOMAIN sessions = {}
    THEN /\ ret' = Err("No active session. Use 'chainlink session start' first.")
         /\ UNCHANGED <<issues, deps, seq, now, side>>
    ELSE IF get_issue(db, issue_id) = None
    THEN /\ ret' = Err("Issue #" \o ToString(issue_id) \o " not found")
         /\ UNCHANGED <<issues, deps, seq, now, side>>
    ELSE /\ sessions' = [sessions EXCEPT
                            ![Greatest(DOMAIN sessions)].active_issue_id = Some(issue_id)]
         /\ ret' = OkUnit
         /\ UNCHANGED <<issues, deps, seq, now, labels, comments, comment_seq,
                        relations, milestones, milestone_seq, milestone_issues,
                        session_seq, txn, input_file, user_version, search,
                        time_entries, time_seq>>

\* The command session work: get_current_session, or the error; get_issue, or the
\* error; then set_session_issue on the id of the current session.
session_work(issue_id) ==
    LET session == get_current_session(db)
    IN IF session = None
       THEN /\ ret' = Err("No active session. Use 'chainlink session start' first.")
            /\ UNCHANGED <<issues, deps, seq, now, side>>
       ELSE IF get_issue(db, issue_id) = None
       THEN /\ ret' = Err("Issue #" \o ToString(issue_id) \o " not found")
            /\ UNCHANGED <<issues, deps, seq, now, side>>
       ELSE /\ sessions' = [k \in DOMAIN sessions |->
                               IF k = session[1].id
                               THEN [sessions[k] EXCEPT !.active_issue_id = Some(issue_id)]
                               ELSE sessions[k]]
            /\ ret' = OkUnit
            /\ UNCHANGED <<issues, deps, seq, now, labels, comments, comment_seq,
                           relations, milestones, milestone_seq, milestone_issues,
                           session_seq, txn, input_file, user_version, search,
                           time_entries, time_seq>>

----------------------------------------------------------------------------
(* commands::next::run *)

\* Priority order for sorting (higher = more important).
priority_weight(priority) ==
    CASE priority = "critical" -> 4
      [] priority = "high" -> 3
      [] priority = "medium" -> 2
      [] priority = "low" -> 1
      [] OTHER -> 0

\* calculate_progress: None for an issue without subissues, else the number of
\* its subissues whose status is "closed" and the number of its subissues.
calculate_progress(self, issue) ==
    LET subissues == get_subissues(self, issue.id)
        closed == Cardinality({k \in 1..Len(subissues) :
                                  subissues[k].status = "closed"})
    IN IF Len(subissues) = 0 THEN None ELSE Some(<<closed, Len(subissues)>>)

\* The loop over `ready`: subissues are skipped, and each issue left is pushed
\* with its score, the priority weight times 100 plus 50 when some and not all
\* of its subissues are closed.
scored_issues(self) ==
    LET ready == list_ready_issues(self)
        kept == SelectSeq(ready, LAMBDA issue : issue.parent_id = None)
    IN [k \in 1..Len(kept) |->
           LET progress == calculate_progress(self, kept[k])
               progress_bonus ==
                   IF /\ progress # None
                      /\ progress[1][1] > 0
                      /\ progress[1][1] < progress[1][2]
                   THEN 50 ELSE 0
           IN [issue |-> kept[k],
               score |-> priority_weight(kept[k].priority) * 100 + progress_bonus,
               progress |-> progress]]

\* scored.sort_by(|a, b| b.1.cmp(&a.1)): by score, largest first; the sort is
\* stable, so issues of one score stay in the order they were pushed.
RECURSIVE sort_by_score(_)
sort_by_score(scored) ==
    IF scored = <<>> THEN <<>>
    ELSE LET k == CHOOSE i \in 1..Len(scored) :
                      /\ \A j \in 1..Len(scored) : scored[j].score <= scored[i].score
                      /\ \A j \in 1..(i - 1) : scored[j].score < scored[i].score
         IN <<scored[k]>> \o sort_by_score(SubSeq(scored, 1, k - 1)
                                           \o SubSeq(scored, k + 1, Len(scored)))

\* println!("Next: #{} [{}] {}", issue.id, issue.priority, issue.title)
next_line(issue) ==
    "Next: #" \o ToString(issue.id) \o " [" \o issue.priority \o "] " \o issue.title

\* run returns Ok(()); msg is the first line it printed.
Printed(line) == [kind |-> "Ok", ty |-> "unit", val |-> 0, msg |-> line]

\* A faulty variant of run: the first ready issue is recommended, with no
\* scoring.
next_run_first_ready ==
    LET ready == list_ready_issues(db)
    IN /\ ret' = IF ready = <<>> THEN Printed("No issues ready to work on.")
                 ELSE Printed(next_line(ready[1]))
       /\ UNCHANGED <<issues, deps, seq, now, side>>

\* run: nothing is ready; or the ready issues that are not subissues are scored
\* and sorted and the first is recommended; or, every ready issue being a
\* subissue, the first ready issue is.  The store is only read.
next_run ==
    LET ready == list_ready_issues(db)
        scored == sort_by_score(scored_issues(db))
    IN /\ ret' = IF ready = <<>> THEN Printed("No issues ready to work on.")
                 ELSE IF scored = <<>> THEN Printed(next_line(ready[1]))
                 ELSE Printed(next_line(scored[1].issue))
       /\ UNCHANGED <<issues, deps, seq, now, side>>

----------------------------------------------------------------------------
(* add_dependency, one turn of the loop of would_create_cycle at a time *)

\* No call of add_dependency is in progress.
NoSearch ==
    [pc |-> "idle", blocked_id |-> 0, blocker_id |-> 0, stack |-> <<>>,
     visited |-> {}, expanded |-> <<>>]

\* What add_dependency does once would_create_cycle has returned `cycle`: the
\* error of a circular chain, or the INSERT OR IGNORE and its foreign keys.
add_dependency_return(cycle) ==
    /\ search' = NoSearch
    /\ IF cycle
       THEN /\ ret' = Err("Adding this dependency would create a circular dependency chain")
            /\ UNCHANGED deps
       ELSE IF ~Exists(search.blocker_id) \/ ~Exists(search.blocked_id)
       THEN /\ ret' = Err("FOREIGN KEY constraint failed")
            /\ UNCHANGED deps
       ELSE /\ deps' = deps \cup {<<search.blocker_id, search.blocked_id>>}
            /\ ret' = OkBool(<<search.blocker_id, search.blocked_id>> \notin deps)

\* add_dependency is called: the test of an issue blocking itself, then
\* would_create_cycle up to its loop, with `stack` = vec![blocked_id] and
\* `visited` empty.
add_dependency_call(blocked_id, blocker_id) ==
    /\ search.pc = "idle"
    /\ IF blocked_id = blocker_id
       THEN /\ ret' = Err("An issue cannot block itself")
            /\ UNCHANGED search
       ELSE /\ search' = [pc |-> "loop", blocked_id |-> blocked_id,
                          blocker_id |-> blocker_id, stack |-> <<blocked_id>>,
                          visited |-> {}, expanded |-> <<>>]
            /\ UNCHANGED ret
    /\ UNCHANGED <<issues, deps, seq, now, labels, comments, comment_seq, relations,
                   milestones, milestone_seq, milestone_issues, sessions,
                   session_seq, txn, input_file, user_version, time_entries, time_seq>>

\* A faulty variant of the turn of the loop: no HashSet of visited issues, every
\* issue popped is expanded and every issue it blocks is pushed.
would_create_cycle_turn_no_visited ==
    /\ search.pc = "loop"
    /\ IF search.stack = <<>>
       THEN add_dependency_return(FALSE)
       ELSE LET current == search.stack[Len(search.stack)]
                rest == SubSeq(search.stack, 1, Len(search.stack) - 1)
            IN IF current = search.blocker_id
               THEN add_dependency_return(TRUE)
               ELSE /\ search' = [search EXCEPT
                                     !.stack = rest \o get_blocking(db, current),
                                     !.expanded = Append(@, current)]
                    /\ UNCHANGED <<deps, ret>>
    /\ UNCHANGED <<issues, seq, now, labels, comments, comment_seq, relations,
                   milestones, milestone_seq, milestone_issues, sessions,
                   session_seq, txn, input_file, user_version, time_entries, time_seq>>

\* One turn of `while let Some(current) = stack.pop()`: the stack being empty,
\* would_create_cycle returns false; `current` being the blocker, it returns
\* true; `current` being new to `visited`, it is inserted, get_blocking(current)
\* is read and the issues it returns that are not in `visited` are pushed; an
\* issue seen before is dropped.  `expanded` lists the issues get_blocking was
\* read for, in order.
would_create_cycle_turn ==
    /\ search.pc = "loop"
    /\ IF search.stack = <<>>
       THEN add_dependency_return(FALSE)
       ELSE LET current == search.stack[Len(search.stack)]
                rest == SubSeq(search.stack, 1, Len(search.stack) - 1)
            IN IF current = search.blocker_id
               THEN add_dependency_return(TRUE)
               ELSE IF current \notin search.visited
               THEN LET seen == search.visited \cup {current}
                        blocking == get_blocking(db, current)
                        push == SelectSeq(blocking, LAMBDA n : n \notin seen)
                    IN /\ search' = [search EXCEPT !.stack = rest \o push,
                                                   !.visited = seen,
                                                   !.expanded = Append(@, current)]
                       /\ UNCHANGED <<deps, ret>>
               ELSE /\ search' = [search EXCEPT !.stack = rest]
                    /\ UNCHANGED <<deps, ret>>
    /\ UNCHANGED <<issues, seq, now, labels, comments, comment_seq, relations,
                   milestones, milestone_seq, milestone_issues, sessions,
                   session_seq, txn, input_file, user_version, time_entries, time_seq>>

(* Opening the database *)

\* SELECT * FROM sessions: the columns of a row in the order of the table.
select_star(row, id) ==
    <<id, row.started_at, row.ended_at, row.active_issue_id, row.handoff_notes>>

\* INSERT INTO sessions_new of the values of a SELECT *: each value goes to the
\* column of sessions_new at its position.
insert_positional(values) ==
    [started_at |-> values[2], ended_at |-> values[3],
     active_issue_id |-> values[4], handoff_notes |-> values[5]]

\* What init_schema reads as the version of the store.  The query selects a
\* column `version` of pragma_user_version, whose only column is user_version:
\* the query fails and unwrap_or(0) makes the version 0.  The stored version is
\* kept as the other reading, which a query that succeeded would return.
read_version == {0, user_version}

\* A faulty variant of open: the migration creates sessions_new and renames it
\* without copying the rows of sessions into it.
open_without_copy ==
    /\ txn = None
    /\ \E version \in read_version :
          IF version < SCHEMA_VERSION
          THEN /\ sessions' = <<>>
               /\ session_seq' = 0
               /\ user_version' = SCHEMA_VERSION
          ELSE UNCHANGED <<sessions, session_seq, user_version>>
    /\ ret' = OkUnit
    /\ UNCHANGED <<issues, deps, seq, now, labels, comments, comment_seq, relations,
                   milestones, milestone_seq, milestone_issues, txn, input_file,
                   search, time_entries, time_seq>>

\* Database::open on the file of a store that exists, no transaction being open
\* on it: init_schema.  When the version read is below SCHEMA_VERSION, the batch
\* of CREATE ... IF NOT EXISTS statements finds every table and index and changes
\* none; ALTER TABLE issues ADD COLUMN parent_id fails on the column that exists,
\* and the error is dropped; then, the version being below 7, sessions_new is
\* created, filled from sessions, sessions is dropped (no table refers to it) and
\* sessions_new renamed to sessions, whose sqlite_sequence is then the largest id
\* copied; the batch stops, its error dropped, if the INSERT fails on a foreign
\* key.  user_version is set to SCHEMA_VERSION.
open ==
    /\ txn = None
    /\ \E version \in read_version :
          IF version < SCHEMA_VERSION
          THEN /\ IF \E k \in DOMAIN sessions :
                        /\ sessions[k].active_issue_id # None
                        /\ ~Exists(sessions[k].active_issue_id[1])
                  THEN UNCHANGED <<sessions, session_seq>>
                  ELSE /\ sessions' = [k \in DOMAIN sessions |->
                                          insert_positional(select_star(sessions[k], k))]
                       /\ session_seq' =
                             IF DOMAIN sessions = {} THEN 0
                             ELSE CHOOSE k \in DOMAIN sessions :
                                      \A j \in DOMAIN sessions : j <= k
               /\ user_version' = SCHEMA_VERSION
          ELSE UNCHANGED <<sessions, session_seq, user_version>>
    /\ ret' = OkUnit
    /\ UNCHANGED <<issues, deps, seq, now, labels, comments, comment_seq, relations,
                   milestones, milestone_seq, milestone_issues, txn, input_file,
                   search, time_entries, time_seq>>

Init ==
    /\ issues = <<>>
    /\ deps = {}
    /\ seq = 0
    /\ now = 0
    /\ ret = OkInt(0)
    /\ labels = {}
    /\ comments = <<>>
    /\ comment_seq = 0
    /\ relations = {}
    /\ milestones = <<>>
    /\ milestone_seq = 0
    /\ milestone_issues = {}
    /\ sessions = <<>>
    /\ session_seq = 0
    /\ txn = None
    /\ input_file = None
    /\ user_version = SCHEMA_VERSION
    /\ search = NoSearch
    /\ time_entries = <<>>
    /\ time_seq = 0

Tick ==
    /\ now < MaxTime
    /\ now' = now + 1
    /\ UNCHANGED <<issues, deps, seq, ret, side>>

----------------------------------------------------------------------------
(* Spec: the dependency graph under the lifecycle operations, driven as the   *)
(* fuzz targets drive it: any operation on any id, existing or not.           *)

Next ==
    \/ seq < MaxIssues /\ create_issue("A", None, "medium")
    \/ \E a \in Ids, b \in Ids : add_dependency(a, b)
    \/ \E a \in Ids, b \in Ids : remove_dependency(a, b)
    \/ \E i \in Ids : close_issue(i)
    \/ \E i \in Ids : reopen_issue(i)
    \/ \E i \in Ids : archive_issue(i)
    \/ \E i \in Ids : unarchive_issue(i)
    \/ \E i \in Ids : delete_issue(i)

Spec == Init /\ [][Next]_vars

----------------------------------------------------------------------------
(* SpecGraph: the dependencies table under the operations that insert into it  *)
(* or delete from it, any ids, existing or not.                                *)

NextGraph ==
    \/ seq < MaxIssues /\ create_issue("A", None, "medium")
    \/ \E a \in Ids, b \in Ids : add_dependency(a, b)
    \/ \E a \in Ids, b \in Ids : remove_dependency(a, b)
    \/ \E i \in Ids : delete_issue(i)

SpecGraph == Init /\ [][NextGraph]_vars

----------------------------------------------------------------------------
(* SpecChain: a chain of dependencies built as test_dependency_chain and       *)
(* prop_no_circular_deps build it (each issue blocked by the next one), with    *)
(* the reverse edges attempted too, and then closed one issue at a time.        *)

NextChain ==
    \/ seq < ChainLen /\ create_issue("A", None, "medium")
    \/ \E a \in ChainIds, b \in ChainIds :
          (a = b + 1 \/ b = a + 1) /\ add_dependency(a, b)
    \/ \E i \in ChainIds : close_issue(i)

SpecChain == Init /\ [][NextChain]_vars

----------------------------------------------------------------------------
(* SpecLifecycle: the status of an issue under every operation that writes it, *)
(* with the clock advancing between calls.                                     *)

Days == 0..MaxTime

UpdateInputs ==
    {<<None, None, None>>, <<Some("B"), Some("d"), Some("high")>>}

NextLifecycle ==
    \/ Tick
    \/ seq < MaxLifeIssues /\ create_issue("A", None, "medium")
    \/ \E i \in LifeIds, u \in UpdateInputs : update_issue(i, u[1], u[2], u[3])
    \/ \E i \in LifeIds : close_issue(i)
    \/ \E i \in LifeIds : reopen_issue(i)
    \/ \E i \in LifeIds : archive_issue(i)
    \/ \E i \in LifeIds : unarchive_issue(i)
    \/ \E d \in Days : archive_older_than(d)

SpecLifecycle == Init /\ [][NextLifecycle]_vars

----------------------------------------------------------------------------
(* SpecRows: issues and subissues with the rows that hang off them (labels,     *)
(* comments, dependencies), closed and reopened in any order.  The number of    *)
(* rows is capped.                                                              *)

Rows ==
    Cardinality(labels) + Cardinality(DOMAIN comments) + Cardinality(deps)
        + Cardinality(relations) + Cardinality(milestone_issues)

NextRows ==
    \/ seq < MaxLifeIssues /\ create_issue("A", None, "medium")
    \/ seq < MaxLifeIssues /\ \E p \in LifeIds : create_subissue(p, "A", None, "medium")
    \/ Rows < MaxRows /\ \E i \in LifeIds : add_label(i, "bug")
    \/ Rows < MaxRows /\ \E i \in LifeIds : add_comment(i, "c")
    \/ Rows < MaxRows /\ \E a \in LifeIds, b \in LifeIds : add_dependency(a, b)
    \/ \E i \in LifeIds : close_issue(i)
    \/ \E i \in LifeIds : reopen_issue(i)

SpecRows == Init /\ [][NextRows]_vars

----------------------------------------------------------------------------
(* SpecRepeat: the operations that can be repeated (a label added twice, a pair *)
(* related twice, an edge removed twice, an issue closed twice), on any ids.    *)

NextRepeat ==
    \/ seq < MaxLifeIssues /\ create_issue("A", None, "medium")
    \/ Rows < MaxRows /\ \E i \in LifeIds : add_label(i, "bug")
    \/ Rows < MaxRows /\ \E a \in LifeIds, b \in LifeIds : add_relation(a, b)
    \/ Rows < MaxRows /\ \E a \in LifeIds, b \in LifeIds : add_dependency(a, b)
    \/ \E i \in LifeIds : remove_label(i, "bug")
    \/ \E a \in LifeIds, b \in LifeIds : remove_relation(a, b)
    \/ \E a \in LifeIds, b \in LifeIds : remove_dependency(a, b)
    \/ \E i \in LifeIds : close_issue(i)
    \/ \E i \in LifeIds : reopen_issue(i)

SpecRepeat == Init /\ [][NextRepeat]_vars

----------------------------------------------------------------------------
(* SpecTree: issues, subissues of them at any depth, and delete_issue, as       *)
(* prop_cascade_deletes_children and test_delete_with_subissues drive them,     *)
(* with any issue as the parent and as the one deleted.                         *)

NextTree ==
    \/ seq < MaxTreeIssues /\ create_issue("A", None, "medium")
    \/ seq < MaxTreeIssues /\ \E p \in TreeIds : create_subissue(p, "A", None, "medium")
    \/ \E i \in TreeIds : delete_issue(i)

SpecTree == Init /\ [][NextTree]_vars

----------------------------------------------------------------------------
(* SpecCascade: issues and subissues with rows in every table that refers to an *)
(* issue, and delete_issue on any of them.  The number of rows is capped, and   *)
(* each milestone name is used once.                                            *)

MilestoneNames == {"v1"}

NextCascade ==
    \/ seq < MaxLifeIssues /\ create_issue("A", None, "medium")
    \/ seq < MaxLifeIssues /\ \E p \in LifeIds : create_subissue(p, "A", None, "medium")
    \/ Rows < MaxCascadeRows /\ \E i \in LifeIds : add_label(i, "bug")
    \/ Rows < MaxCascadeRows /\ \E i \in LifeIds : add_comment(i, "c")
    \/ Rows < MaxCascadeRows /\ \E a \in LifeIds, b \in LifeIds : add_dependency(a, b)
    \/ Rows < MaxCascadeRows /\ \E a \in LifeIds, b \in LifeIds : add_relation(a, b)
    \/ \E n \in MilestoneNames :
          /\ \A m \in DOMAIN milestones : milestones[m].name # n
          /\ create_milestone(n, None)
    \/ Rows < MaxCascadeRows
          /\ \E m \in 1..Cardinality(MilestoneNames), i \in LifeIds :
                add_issue_to_milestone(m, i)
    \/ \E i \in LifeIds : delete_issue(i)

SpecCascade == Init /\ [][NextCascade]_vars

----------------------------------------------------------------------------
(* SpecSessionIssue: sessions that name an issue as the one worked on, and       *)
(* delete_issue on that issue or on one above it, as                            *)
(* prop_session_issue_delete_cascade drives them.                               *)

SessionIds == 1..MaxSessions

NotesInputs == {None, Some(""), Some("n")}

NextSessionIssue ==
    \/ seq < MaxLifeIssues /\ create_issue("A", None, "medium")
    \/ seq < MaxLifeIssues /\ \E p \in LifeIds : create_subissue(p, "A", None, "medium")
    \/ session_seq < MaxSessions /\ start_session
    \/ \E k \in SessionIds, n \in NotesInputs : end_session(k, n)
    \/ \E k \in SessionIds, i \in LifeIds : set_session_issue(k, i)
    \/ \E i \in LifeIds : delete_issue(i)

SpecSessionIssue == Init /\ [][NextSessionIssue]_vars

----------------------------------------------------------------------------
(* SpecSession: the session commands start and end, in any order, with the      *)
(* clock advancing between them.                                                *)

NextSession ==
    \/ Tick
    \/ session_seq < MaxSessions /\ session_start
    \/ \E n \in NotesInputs : session_end(n)

SpecSession == Init /\ [][NextSession]_vars

----------------------------------------------------------------------------
(* SpecTxn: Database::transaction around a body that creates issues, labels     *)
(* them and closes them, on any ids, and returns Ok or Err at any point; the    *)
(* same calls are made outside a transaction too.                               *)

\* What a body returns: Ok of some value; or Err, its own or (by `?`) the one the
\* call before handed it.
BodyResults == {OkUnit, OkInt(1)}

BodyErrors ==
    {BodyError} \cup (IF ret.kind = "Err" THEN {ret} ELSE {})

NextTxn ==
    \/ transaction_begin
    \/ seq < MaxLifeIssues /\ create_issue("A", None, "medium")
    \/ \E i \in LifeIds : add_label(i, "bug")
    \/ \E i \in LifeIds : close_issue(i)
    \/ \E r \in BodyResults : transaction_commit(r)
    \/ \E e \in BodyErrors : transaction_rollback(e)

SpecTxn == Init /\ [][NextTxn]_vars

----------------------------------------------------------------------------
(* SpecImport: an import file of a few exported issues (open or closed, with or *)
(* without a label, a comment and a parent), imported into a store that may     *)
(* hold issues already, with any one call of the import failing, or none.       *)

\* The k-th issue of an export has the id k.  Its parent is the first or the last
\* id an export of MaxImportIssues issues can hold, so that it may come earlier or
\* later in the file, be the issue itself, or not be in the file; it has a label
\* and a comment, or neither.
ExportedIssues(k) ==
    {[id |-> k, title |-> "T", description |-> None, status |-> st,
      priority |-> "medium", parent_id |-> p, labels |-> n[1], comments |-> n[2]] :
        st \in {"open", "closed"},
        p \in {None, Some(1), Some(MaxImportIssues)},
        n \in {<<<<>>, <<>>>>, <<<<"bug">>, <<"c">>>>}}

RECURSIVE ExportsOfLen(_)
ExportsOfLen(n) ==
    IF n = 0 THEN {<<>>}
    ELSE {Append(f, e) : f \in ExportsOfLen(n - 1), e \in ExportedIssues(n)}

ImportFiles == UNION {ExportsOfLen(n) : n \in 0..MaxImportIssues}

\* The calls of an import are at most five an issue; 0 is for no failing call.
FailPoints == 0..(5 * MaxImportIssues)

NextImport ==
    \/ seq < MaxImportIssues /\ create_issue("A", None, "medium")
    \/ input_file = None /\ \E data \in ImportFiles : write_file(data)
    \/ \E f \in FailPoints :
          /\ input_file # None => seq + Len(input_file[1]) <= MaxImportIssues
          /\ run_json(f)

SpecImport == Init /\ [][NextImport]_vars

----------------------------------------------------------------------------
(* SpecCreate: issues created with any title, description and priority, as      *)
(* prop_title_roundtrip, prop_description_roundtrip and prop_priority_valid      *)
(* create them, with the clock advancing between calls.                         *)

Titles == {"", "A"}
Descriptions == {None, Some(""), Some("d")}
Priorities == {"medium", "high"}

NextCreate ==
    \/ Tick
    \/ seq < MaxLifeIssues
          /\ \E t \in Titles, d \in Descriptions, p \in Priorities : create_issue(t, d, p)

SpecCreate == Init /\ [][NextCreate]_vars

----------------------------------------------------------------------------
(* SpecUpdate: update_issue with each of its three fields given or not, on any  *)
(* id, in a store of one issue and its subissues, where the issue may be closed *)
(* and may have a label, comments and a blocker.                                *)

PartialUpdates ==
    {<<t, d, p>> : t \in {None, Some("B")}, d \in {None, Some("d")},
                   p \in {None, Some("high")}}

NextUpdate ==
    \/ seq = 0 /\ create_issue("A", None, "low")
    \/ seq < MaxLifeIssues /\ create_subissue(1, "A", None, "low")
    \/ Rows < MaxRows /\ add_label(1, "bug")
    \/ Rows < MaxRows /\ add_comment(1, "c")
    \/ Rows < MaxRows /\ add_dependency(1, 2)
    \/ close_issue(1)
    \/ \E i \in LifeIds, u \in PartialUpdates : update_issue(i, u[1], u[2], u[3])

SpecUpdate == Init /\ [][NextUpdate]_vars

----------------------------------------------------------------------------
(* SpecList: issues of two priorities, open, closed or archived, with neither,  *)
(* one or both of two labels, as the tests of list_issues build them.           *)

Labels == {"bug", "ui"}

StatusFilters == {None, Some("all"), Some("open"), Some("closed"), Some("archived")}
LabelFilters == {None} \cup {Some(l) : l \in Labels}
PriorityFilters == {None, Some("low"), Some("high")}

NextList ==
    \/ seq < MaxLifeIssues /\ \E p \in {"low", "high"} : create_issue("A", None, p)
    \/ Rows < MaxRows /\ \E i \in LifeIds, l \in Labels : add_label(i, l)
    \/ \E i \in LifeIds, l \in Labels : remove_label(i, l)
    \/ \E i \in LifeIds : close_issue(i)
    \/ \E i \in LifeIds : archive_issue(i)

SpecList == Init /\ [][NextList]_vars

----------------------------------------------------------------------------
(* SpecSearch: issues whose titles, descriptions and comments hold the          *)
(* wildcard characters and the escape character, searched with every query up   *)
(* to a length.                                                                 *)

Chars == {"a", "A", "b", "%", "_", "\\"}

RECURSIVE TextsOfLen(_)
TextsOfLen(n) ==
    IF n = 0 THEN {<<>>}
    ELSE {<<c>> \o t : c \in Chars, t \in TextsOfLen(n - 1)}

Queries == UNION {TextsOfLen(n) : n \in 0..MaxQueryLen}

SearchTitles ==
    {<<"a", "%", "b", "a">>, <<"a", "b", "a">>, <<"a", "\\", "b">>, <<"A", "_", "%">>}
SearchDescriptions == {None, Some(<<"b", "_", "b">>)}
SearchComments == {<<"B", "\\">>, <<"b", "a", "b">>}

NextSearch ==
    \/ seq < MaxLifeIssues
          /\ \E t \in SearchTitles, d \in SearchDescriptions : create_issue(t, d, "medium")
    \/ comment_seq = 0 /\ \E c \in SearchComments : add_comment(1, c)

SpecSearch == Init /\ [][NextSearch]_vars

----------------------------------------------------------------------------
(* SpecRelate: issues related and unrelated in either order of the two ids, as  *)
(* prop_add_remove_roundtrip and the relation tests drive them, an issue with   *)
(* itself and ids of no issue included.  The number of rows is capped.          *)

NextRelate ==
    \/ seq < MaxTreeIssues /\ create_issue("A", None, "medium")
    \/ Rows < MaxRows /\ \E a \in TreeIds, b \in TreeIds : add_relation(a, b)
    \/ \E a \in TreeIds, b \in TreeIds : remove_relation(a, b)

SpecRelate == Init /\ [][NextRelate]_vars

----------------------------------------------------------------------------
(* SpecComments: comments added to an issue and its subissues while the clock   *)
(* advances or stands still, the issue closed and any issue deleted in          *)
(* between.  The number of comments ever added is capped.                       *)

CommentTexts == {"c"}

NextComments ==
    \/ Tick
    \/ seq = 0 /\ create_issue("A", None, "medium")
    \/ seq < MaxLifeIssues /\ create_subissue(1, "A", None, "medium")
    \/ comment_seq < MaxRows /\ \E i \in LifeIds, c \in CommentTexts : add_comment(i, c)
    \/ close_issue(1)
    \/ \E i \in LifeIds : delete_issue(i)

SpecComments == Init /\ [][NextComments]_vars

----------------------------------------------------------------------------
(* SpecArchive: issues closed at different times, reopened or archived one by   *)
(* one, and archive_older_than with a cutoff in the past, now or in the future. *)

ArchiveDays == (0 - 1)..MaxTime

NextArchive ==
    \/ Tick
    \/ seq < MaxLifeIssues /\ create_issue("A", None, "medium")
    \/ \E i \in LifeIds : close_issue(i)
    \/ \E i \in LifeIds : reopen_issue(i)
    \/ \E i \in LifeIds : archive_issue(i)
    \/ \E d \in ArchiveDays : archive_older_than(d)

SpecArchive == Init /\ [][NextArchive]_vars

----------------------------------------------------------------------------
(* SpecOpen: a store with rows in the tables of issues, labels, comments,       *)
(* dependencies, relations and sessions, closed and opened again at any point.  *)

NextOpen ==
    \/ seq < MaxLifeIssues /\ create_issue("A", None, "medium")
    \/ Rows < MaxRows /\ add_label(1, "bug")
    \/ Rows < MaxRows /\ add_comment(1, "c")
    \/ Rows < MaxRows /\ add_dependency(1, 2)
    \/ Rows < MaxRows /\ add_relation(1, 2)
    \/ session_seq < MaxSessions /\ start_session
    \/ \E k \in SessionIds, n \in NotesInputs : end_session(k, n)
    \/ \E k \in SessionIds : set_session_issue(k, 1)
    \/ open

SpecOpen == Init /\ [][NextOpen]_vars

----------------------------------------------------------------------------
(* SpecImportParents: files whose issues carry the ids of the store they were   *)
(* exported from, which are neither their positions in the file nor the ids     *)
(* they get, with parents before and after them in the file, outside the file   *)
(* or absent, imported into a store that has issues and subissues of its own.   *)

\* The exported id of the k-th issue of a file.
OldId(k) == 10 * (MaxImportIssues + 1 - k)

OldParents == {None, Some(1)} \cup {Some(OldId(k)) : k \in 1..MaxImportIssues}

RECURSIVE ParentFilesOfLen(_)
ParentFilesOfLen(n) ==
    IF n = 0 THEN {<<>>}
    ELSE {Append(f, [id |-> OldId(n), title |-> "T", description |-> None,
                     status |-> "open", priority |-> "medium", parent_id |-> p,
                     labels |-> <<>>, comments |-> <<>>]) :
              f \in ParentFilesOfLen(n - 1), p \in OldParents}

ParentFiles == UNION {ParentFilesOfLen(n) : n \in 1..MaxImportIssues}

NextImportParents ==
    \/ seq = 0 /\ create_issue("A", None, "medium")
    \/ seq < MaxLifeIssues /\ input_file = None /\ create_subissue(1, "A", None, "medium")
    \/ input_file = None /\ \E data \in ParentFiles : write_file(data)
    \/ \E f \in 0..1 : seq <= MaxLifeIssues /\ run_json(f)

SpecImportParents == Init /\ [][NextImportParents]_vars

----------------------------------------------------------------------------
(* SpecImportStatus: files of issues of each status, with no label, one, two or *)
(* one label written twice.                                                     *)

StatusFileIssues(k) ==
    {[id |-> k, title |-> "T", description |-> None, status |-> st,
      priority |-> "medium", parent_id |-> None, labels |-> ls, comments |-> <<>>] :
        st \in {"open", "closed", "archived"},
        ls \in {<<>>, <<"bug">>, <<"bug", "ui">>, <<"bug", "bug">>}}

RECURSIVE StatusFilesOfLen(_)
StatusFilesOfLen(n) ==
    IF n = 0 THEN {<<>>}
    ELSE {Append(f, e) : f \in StatusFilesOfLen(n - 1), e \in StatusFileIssues(n)}

StatusFiles == UNION {StatusFilesOfLen(n) : n \in 1..MaxImportIssues}

NextImportStatus ==
    \/ seq = 0 /\ input_file = None /\ create_issue("A", None, "medium")
    \/ input_file = None /\ \E data \in StatusFiles : write_file(data)
    \/ \E f \in 0..1 : seq <= 1 /\ run_json(f)

SpecImportStatus == Init /\ [][NextImportStatus]_vars

----------------------------------------------------------------------------
(* SpecSessionWork: the commands session start, end and work, on issues that    *)
(* exist, that were deleted and that never were.                                *)

NextSessionWork ==
    \/ seq < MaxLifeIssues /\ create_issue("A", None, "medium")
    \/ \E i \in LifeIds : delete_issue(i)
    \/ session_seq < MaxSessions /\ session_start
    \/ \E n \in {None, Some("n")} : session_end(n)
    \/ \E i \in LifeIds : session_work(i)

SpecSessionWork == Init /\ [][NextSessionWork]_vars

----------------------------------------------------------------------------
\* Stores whose edge set was not built by add_dependency (a file written by an
\* earlier release or by hand): issues 1..MaxLifeIssues as create_issue stores
\* them, and at most MaxRows edges between them, self-loops and cycles
\* included.  add_dependency is called with every pair of these ids and of one
\* id no issue has, while the store holds no more than MaxRows edges.
CallIds == 1..(MaxLifeIssues + 1)
EdgeSets == {E \in SUBSET (LifeIds \X LifeIds) : Cardinality(E) <= MaxRows}

InitCycleSearch ==
    /\ issues = [i \in LifeIds |->
                    [title |-> "A", description |-> None, status |-> "open",
                     priority |-> "medium", parent_id |-> None, created_at |-> 0,
                     updated_at |-> 0, closed_at |-> None]]
    /\ seq = MaxLifeIssues
    /\ deps \in EdgeSets
    /\ now = 0
    /\ ret = OkInt(MaxLifeIssues)
    /\ labels = {}
    /\ comments = <<>>
    /\ comment_seq = 0
    /\ relations = {}
    /\ milestones = <<>>
    /\ milestone_seq = 0
    /\ milestone_issues = {}
    /\ sessions = <<>>
    /\ session_seq = 0
    /\ txn = None
    /\ input_file = None
    /\ user_version = SCHEMA_VERSION
    /\ search = NoSearch
    /\ time_entries = <<>>
    /\ time_seq = 0

NextCycleSearch ==
    \/ \E a \in CallIds, b \in CallIds :
          Cardinality(deps) <= MaxRows /\ add_dependency_call(a, b)
    \/ would_create_cycle_turn

\* The call runs on one thread with nothing to wait for: a turn of the loop that
\* can be taken is taken.
SpecCycleSearch ==
    InitCycleSearch /\ [][NextCycleSearch]_vars /\ WF_vars(would_create_cycle_turn)

\* SpecIntegrity: every table that refers to issues is written, with the ids of
\* issues that exist, that were deleted and that never existed, and issues are
\* deleted under the rows.  The tables hold fewer than MaxCascadeRows referring
\* rows between them, the active issue of the session counted as one.
RefIds == 1..(MaxLifeIssues + 1)
RefRows ==
    Rows + Cardinality(DOMAIN time_entries)
        + Cardinality({k \in DOMAIN sessions : sessions[k].active_issue_id # None}) + 1

NextIntegrity ==
    \/ seq < MaxLifeIssues /\ create_issue("A", None, "medium")
    \/ RefRows < MaxCascadeRows /\ \E a \in RefIds, b \in RefIds : add_dependency(a, b)
    \/ RefRows < MaxCascadeRows /\ \E i \in RefIds : add_label(i, "bug")
    \/ RefRows < MaxCascadeRows /\ \E i \in RefIds : add_comment(i, "c")
    \/ RefRows < MaxCascadeRows /\ \E a \in RefIds, b \in RefIds : add_relation(a, b)
    \/ milestone_seq < 1 /\ create_milestone("m", None)
    \/ RefRows < MaxCascadeRows /\ \E i \in RefIds : add_issue_to_milestone(1, i)
    \/ RefRows < MaxCascadeRows /\ \E i \in RefIds : start_timer(i)
    \/ session_seq < 1 /\ start_session
    \/ RefRows < MaxCascadeRows /\ \E k \in 1..2, i \in RefIds : set_session_issue(k, i)
    \/ \E i \in RefIds : delete_issue(i)

SpecIntegrity == Init /\ [][NextIntegrity]_vars

\* SpecReadiness: issues with at most MaxCascadeRows blocking edges between
\* them are closed, reopened, archived and unarchived.
NextReadiness ==
    \/ seq < MaxIssues /\ create_issue("A", None, "medium")
    \/ Cardinality(deps) < MaxCascadeRows
          /\ \E a \in Ids, b \in Ids : add_dependency(a, b)
    \/ \E i \in Ids : close_issue(i)
    \/ \E i \in Ids : reopen_issue(i)
    \/ \E i \in Ids : archive_issue(i)
    \/ \E i \in Ids : unarchive_issue(i)

SpecReadiness == Init /\ [][NextReadiness]_vars

\* SpecNext: a first issue of medium priority with subissues, up to MaxLifeIssues
\* issues without a parent in all, the others of any priority; at most one
\* blocking edge, between the first issues; issues are closed, and the next
\* command is run on what is stored.
NextPriorities == {"low", "medium", "high", "critical"}
Roots == {i \in DOMAIN issues : issues[i].parent_id = None}

NextNext ==
    \/ seq = 0 /\ create_issue("A", None, "medium")
    \/ /\ seq > 0 /\ seq < MaxTreeIssues
       /\ Cardinality(Roots) < MaxLifeIssues
       /\ \E p \in NextPriorities : create_issue("A", None, p)
    \/ seq < MaxTreeIssues /\ create_subissue(1, "A", None, "medium")
    \/ deps = {} /\ \E a \in LifeIds, b \in LifeIds : add_dependency(a, b)
    \/ \E i \in TreeIds : close_issue(i)
    \/ next_run

SpecNext == Init /\ [][NextNext]_vars

(* The dependency graph as a relation, for stating the properties: these are   *)
(* computed from an edge set by closure, not by the search of the code.        *)

\* The issues reachable from the set S by one or more blocker -> blocked edges of E.
RECURSIVE Downstream(_, _)
Downstream(E, S) ==
    LET next == S \cup {e[2] : e \in {d \in E : d[1] \in S}}
    IN IF next = S THEN S ELSE Downstream(E, next)

\* a transitively blocks b in E.
Blocks(E, a, b) == b \in Downstream(E, {e[2] : e \in {d \in E : d[1] = a}})

Acyclic(E) == \A e \in E : e[1] # e[2] /\ ~Blocks(E, e[2], e[1])

ReadyIds(self) == IdSet(list_ready_issues(self))

CycleError == Err("Adding this dependency would create a circular dependency chain")
SelfBlockError == Err("An issue cannot block itself")

----------------------------------------------------------------------------
(* Properties of the dependency graph (Spec, SpecGraph) *)

\* C1: after any sequence of create_issue, add_dependency, remove_dependency,
\* close_issue, reopen_issue, archive_issue, unarchive_issue and delete_issue
\* calls the stored edge set has no self-loop and no directed cycle.
C1_NoCycle == Acyclic(deps)

\* A chain of two edges is stored and an edge closing it was just refused.
C1_Witness ==
    /\ ret = CycleError
    /\ \E a \in Ids, b \in Ids, c \in Ids : {<<a, b>>, <<b, c>>} \subseteq deps

\* C2: when a already transitively blocks b (a # b), add_dependency(a, b) returns
\* the circular-dependency error and leaves the edge set as it was; and
\* add_dependency(2, 1) after add_dependency(1, 2) fails with get_blockers(1)
\* still exactly [2].
C2_CycleRefused ==
    [][ /\ \A a \in Ids, b \in Ids :
              (a # b /\ Blocks(deps, a, b) /\ add_dependency(a, b))
                  => (ret' = CycleError /\ deps' = deps)
        /\ (get_blockers(db, 1) = <<2>> /\ add_dependency(2, 1))
              => (ret'.kind = "Err" /\ get_blockers(db', 1) = <<2>>)
      ]_vars

\* The refused edge would have closed a cycle through a third issue, and 2 is the
\* only blocker of 1.
C2_Witness ==
    /\ ret = CycleError
    /\ get_blockers(db, 1) = <<2>>
    /\ \E a \in Ids, b \in Ids, c \in Ids :
          /\ {<<a, b>>, <<b, c>>} \subseteq deps
          /\ <<a, c>> \notin deps

\* C3: add_dependency(x, x) returns the self-block error for every id x, of an
\* existing issue or not, in every store state, and leaves the edge set unchanged.
C3_SelfBlockRefused ==
    [][ \A x \in Ids : add_dependency(x, x)
                          => (ret' = SelfBlockError /\ deps' = deps) ]_vars

C3_Witness == ret = SelfBlockError /\ deps # {}

\* C4: add_dependency(blocked, blocker) with the edge blocker -> blocked already
\* stored returns Ok(false) and leaves the edge set unchanged; the call that
\* inserts an edge returns Ok(true) and adds exactly that edge.
C4_DuplicateIsNoOp ==
    [][ \A a \in Ids, b \in Ids :
           /\ (<<b, a>> \in deps /\ add_dependency(a, b))
                 => (ret' = OkBool(FALSE) /\ deps' = deps)
           /\ (<<b, a>> \notin deps /\ ret'.kind = "Ok" /\ add_dependency(a, b))
                 => (ret' = OkBool(TRUE) /\ deps' = deps \cup {<<b, a>>})
      ]_vars

C4_Witness == ret = OkBool(FALSE) /\ Cardinality(deps) = 2

\* C5: list_ready_issues returns exactly the open issues none of whose immediate
\* blockers is open, in id order; closed and archived blockers, and blockers
\* further up the chain, do not count.
C5_ReadyList ==
    LET want == {i \in DOMAIN issues :
                    /\ issues[i].status = "open"
                    /\ \A b \in DOMAIN issues :
                          <<b, i>> \in deps => issues[b].status \in {"closed", "archived"}}
    IN /\ IdsOf(list_ready_issues(db)) = Ascending(want)
       /\ \A k \in 1..Len(list_ready_issues(db)) :
             get_issue(db, list_ready_issues(db)[k].id) = Some(list_ready_issues(db)[k])

\* Issue 1 is ready behind an archived blocker that is itself behind an open one.
C5_Witness ==
    /\ deps = {<<3, 2>>, <<2, 1>>}
    /\ issues[1].status = "open"
    /\ issues[2].status = "archived"
    /\ issues[3].status = "open"
    /\ IdsOf(list_ready_issues(db)) = <<1, 3>>

\* C6: list_blocked_issues returns exactly the open issues with at least one open
\* immediate blocker, each once, in id order.
C6_BlockedList ==
    LET want == {i \in DOMAIN issues :
                    /\ issues[i].status = "open"
                    /\ \E b \in DOMAIN issues :
                          <<b, i>> \in deps /\ issues[b].status = "open"}
    IN /\ IdsOf(list_blocked_issues(db)) = Ascending(want)
       /\ \A k \in 1..Len(list_blocked_issues(db)) :
             get_issue(db, list_blocked_issues(db)[k].id) = Some(list_blocked_issues(db)[k])

\* Issue 1 has two open blockers and is listed once.
C6_Witness ==
    /\ deps = {<<2, 1>>, <<3, 1>>}
    /\ \A i \in {1, 2, 3} : issues[i].status = "open"
    /\ IdsOf(list_blocked_issues(db)) = <<1>>

----------------------------------------------------------------------------
(* Readiness along a chain (SpecChain) and in the two-issue scenario (Spec) *)

\* The chain 1 <- 2 <- ... <- ChainLen: every issue is blocked by the next one.
ChainBuilt ==
    /\ DOMAIN issues = ChainIds
    /\ deps = {<<i + 1, i>> : i \in 1..(ChainLen - 1)}

\* Issues 1..k of the chain are open and the issues after k are closed.
ClosedDownTo(k) ==
    /\ \A i \in 1..k : issues[i].status = "open"
    /\ \A i \in (k + 1)..ChainLen : issues[i].status = "closed"

\* C7: in a chain of open issues list_ready_issues holds exactly the last issue
\* (the one nothing blocks); once the issues after k are closed, one after the
\* other, it holds exactly issue k; and a close_issue call never takes an issue
\* other than the closed one out of the list. (Stated of the store after a call.)
C7_ChainReadiness ==
    [][ /\ ChainBuilt' => \A k \in ChainIds :
                              ClosedDownTo(k)' => IdsOf(list_ready_issues(db')) = <<k>>
        /\ \A j \in ChainIds :
              close_issue(j) => (ReadyIds(db) \ {j}) \subseteq ReadyIds(db')
      ]_vars

\* The last two issues of the chain are closed and the one before them is ready.
C7_Witness ==
    /\ ChainBuilt
    /\ ClosedDownTo(ChainLen - 2)
    /\ IdsOf(list_ready_issues(db)) = <<ChainLen - 2>>

\* The store of the scenario: issues 1 and 2 and no other, both open.
TwoOpenIssues ==
    /\ DOMAIN issues = {1, 2}
    /\ issues[1].status = "open"
    /\ issues[2].status = "open"

\* C8 as stated: with issues 1 and 2 open, add_dependency(1, 2) succeeds and
\* list_ready_issues then contains 2 and not 1; after close_issue(2) it
\* contains both 1 and 2.
C8_AsStated ==
    [][ /\ (TwoOpenIssues /\ deps = {} /\ add_dependency(1, 2))
              => (ret' = OkBool(TRUE) /\ 2 \in ReadyIds(db') /\ 1 \notin ReadyIds(db'))
        /\ (TwoOpenIssues /\ deps = {<<2, 1>>} /\ close_issue(2))
              => ({1, 2} \subseteq ReadyIds(db'))
      ]_vars

\* C8, amended: with issues 1 and 2 open, add_dependency(1, 2) succeeds and
\* list_ready_issues then contains 2 and not 1; after close_issue(2) it
\* contains 1 and no longer 2, which is closed.
C8_ClosedBlockerLeavesList ==
    [][ /\ (TwoOpenIssues /\ deps = {} /\ add_dependency(1, 2))
              => (ret' = OkBool(TRUE) /\ 2 \in ReadyIds(db') /\ 1 \notin ReadyIds(db'))
        /\ (TwoOpenIssues /\ deps = {<<2, 1>>} /\ close_issue(2))
              => (ReadyIds(db') = {1})
      ]_vars

\* Issue 2, the blocker of 1, was just closed and 1 is the one ready issue.
C8_Witness ==
    /\ DOMAIN issues = {1, 2}
    /\ deps = {<<2, 1>>}
    /\ issues[1].status = "open"
    /\ issues[2].status = "closed"
    /\ ret = OkBool(TRUE)
    /\ IdsOf(list_ready_issues(db)) = <<1>>

----------------------------------------------------------------------------
(* The lifecycle of an issue (SpecLifecycle) *)

\* open -> closed, closed -> archived, closed -> open, archived -> closed.
AllowedTransitions ==
    {<<"open", "closed">>, <<"closed", "archived">>,
     <<"closed", "open">>, <<"archived", "closed">>}

\* C9: every operation changes an issue's status only along open -> closed,
\* closed -> archived, closed -> open or archived -> closed: never from archived
\* to open or from open to archived in one call.
C9_OnlyAllowedTransitions ==
    [][ \A i \in (DOMAIN issues) \cap (DOMAIN issues') :
           \/ issues'[i].status = issues[i].status
           \/ <<issues[i].status, issues'[i].status>> \in AllowedTransitions ]_vars

\* C10: each issue has closed_at set if and only if its status is closed or
\* archived.
C10_ClosedAtIffClosed ==
    \A i \in DOMAIN issues :
        (issues[i].closed_at # None) <=> (issues[i].status \in {"closed", "archived"})

\* An archived issue that kept its closed_at through a later update, beside an
\* issue that is open again, after being closed, with closed_at cleared.
C10_Witness ==
    \E i \in DOMAIN issues, j \in DOMAIN issues :
        /\ issues[i].status = "archived"
        /\ issues[i].closed_at # None
        /\ issues[i].title = "B"
        /\ issues[i].updated_at > issues[i].closed_at[1]
        /\ issues[j].status = "open"
        /\ issues[j].closed_at = None
        /\ issues[j].updated_at > issues[j].created_at

\* The rows of issues other than row i are after the step what they were before.
OthersKept(i) ==
    /\ DOMAIN issues' = DOMAIN issues
    /\ \A j \in (DOMAIN issues) \ {i} : issues'[j] = issues[j]

\* C11: archive_issue(id) returns true and sets the status to archived only when
\* the issue's status is closed; for an open, an archived or an absent issue it
\* returns Ok(false) and leaves every issue unchanged.
C11_ArchiveOnlyClosed ==
    [][ \A i \in LifeIds : archive_issue(i) =>
           IF Exists(i) /\ issues[i].status = "closed"
           THEN /\ ret' = OkBool(TRUE)
                /\ issues'[i].status = "archived"
                /\ OthersKept(i)
           ELSE /\ ret' = OkBool(FALSE)
                /\ issues' = issues
      ]_vars

\* One issue is archived, and a call on an issue that is open returned Ok(false).
C11_Witness ==
    /\ ret = OkBool(FALSE)
    /\ \E i \in DOMAIN issues, j \in DOMAIN issues :
          /\ issues[i].status = "archived"
          /\ issues[j].status = "open"
          /\ issues[j].updated_at = issues[j].created_at

\* C12: unarchive_issue(id) returns true and sets the status to closed only when
\* the issue's status is archived; for an open, a closed or an absent issue it
\* returns Ok(false) and leaves every issue unchanged.
C12_UnarchiveOnlyArchived ==
    [][ \A i \in LifeIds : unarchive_issue(i) =>
           IF Exists(i) /\ issues[i].status = "archived"
           THEN /\ ret' = OkBool(TRUE)
                /\ issues'[i].status = "closed"
                /\ issues'[i].closed_at = issues[i].closed_at
                /\ OthersKept(i)
           ELSE /\ ret' = OkBool(FALSE)
                /\ issues' = issues
      ]_vars

\* An issue is closed again after having been archived on a later day than it was
\* closed, beside an archived issue.
C12_Witness ==
    /\ ret = OkBool(TRUE)
    /\ \E i \in DOMAIN issues, j \in DOMAIN issues :
          /\ issues[i].status = "closed"
          /\ issues[i].title = "A"
          /\ issues[i].updated_at > issues[i].closed_at[1]
          /\ issues[j].status = "archived"

----------------------------------------------------------------------------
(* Closing and reopening (SpecRows, SpecLifecycle), repeated calls (SpecRepeat) *)

\* What a call on issue i keeps: its title, description, priority and parent, the
\* other issues, and every label, comment and dependency edge.
Kept(i) ==
    /\ issues'[i].title = issues[i].title
    /\ issues'[i].description = issues[i].description
    /\ issues'[i].priority = issues[i].priority
    /\ issues'[i].parent_id = issues[i].parent_id
    /\ OthersKept(i)
    /\ labels' = labels
    /\ comments' = comments
    /\ deps' = deps

\* C13: for every existing issue, close_issue(id) and then reopen_issue(id) leave
\* the issue open with closed_at cleared: each of the two calls keeps its title,
\* description, priority, parent_id, labels, comments and dependency edges, and
\* reopen_issue sets status open and closed_at NULL.
C13_CloseReopenRoundTrip ==
    [][ \A i \in LifeIds : Exists(i) =>
           /\ close_issue(i) => (ret' = OkBool(TRUE) /\ Kept(i))
           /\ reopen_issue(i) => /\ ret' = OkBool(TRUE)
                                 /\ issues'[i].status = "open"
                                 /\ issues'[i].closed_at = None
                                 /\ Kept(i)
      ]_vars

\* A subissue with a label, a comment and a blocker is open with no closed_at after
\* a call that returned Ok(true), while its parent is closed.
C13_Witness ==
    /\ ret = OkBool(TRUE)
    /\ \E i \in DOMAIN issues :
          /\ issues[i].status = "open"
          /\ issues[i].closed_at = None
          /\ issues[i].parent_id # None
          /\ issues[issues[i].parent_id[1]].status = "closed"
          /\ <<i, "bug">> \in labels
          /\ \E c \in DOMAIN comments : comments[c].issue_id = i
          /\ \E d \in deps : d[2] = i

\* C14: close_issue on an already closed issue is a no-op success: it returns
\* without error and the issue's status and closed_at are what they were.
C14_CloseIsIdempotent ==
    [][ \A i \in LifeIds :
           (Exists(i) /\ issues[i].status = "closed" /\ close_issue(i))
              => /\ ret'.kind = "Ok"
                 /\ issues'[i].status = issues[i].status
                 /\ issues'[i].closed_at = issues[i].closed_at
      ]_vars

\* C15 as stated: the repeated add_label, add_relation, remove_dependency and
\* close_issue each return, without error, a boolean that is true exactly when the
\* call changed the store.
C15_AsStated ==
    [][ /\ \A i \in LifeIds :
              (<<i, "bug">> \in labels /\ add_label(i, "bug"))
                 => ret' = OkBool(tables' # tables)
        /\ \A a \in LifeIds, b \in LifeIds :
              (a # b /\ Related(relation_pair(a, b)[1], relation_pair(a, b)[2])
                     /\ add_relation(a, b))
                 => ret' = OkBool(tables' # tables)
        /\ \A a \in LifeIds, b \in LifeIds :
              (<<b, a>> \notin deps /\ remove_dependency(a, b))
                 => ret' = OkBool(tables' # tables)
        /\ \A i \in LifeIds :
              (Exists(i) /\ issues[i].status = "closed" /\ close_issue(i))
                 => ret' = OkBool(tables' # tables)
      ]_vars

\* C15, amended: add_label with a label already on the issue, add_relation for a
\* pair already related (in either order) and remove_dependency for an edge not
\* stored return Ok(false) and leave the store as it was; close_issue on an
\* already closed issue returns Ok(true), without error, and the issue stays closed.
C15_RepeatsReported ==
    [][ /\ \A i \in LifeIds :
              (<<i, "bug">> \in labels /\ add_label(i, "bug"))
                 => (ret' = OkBool(FALSE) /\ tables' = tables)
        /\ \A a \in LifeIds, b \in LifeIds :
              (a # b /\ Related(relation_pair(a, b)[1], relation_pair(a, b)[2])
                     /\ add_relation(a, b))
                 => (ret' = OkBool(FALSE) /\ tables' = tables)
        /\ \A a \in LifeIds, b \in LifeIds :
              (<<b, a>> \notin deps /\ remove_dependency(a, b))
                 => (ret' = OkBool(FALSE) /\ tables' = tables)
        /\ \A i \in LifeIds :
              (Exists(i) /\ issues[i].status = "closed" /\ close_issue(i))
                 => (ret' = OkBool(TRUE) /\ issues'[i].status = "closed")
      ]_vars

\* A labelled issue and a related pair are stored, an issue is closed, and the
\* last call returned Ok(false).
C15_Witness ==
    /\ ret = OkBool(FALSE)
    /\ labels # {}
    /\ relations # {}
    /\ \E i \in DOMAIN issues : issues[i].status = "closed"

----------------------------------------------------------------------------
(* Deleting an issue (SpecTree, SpecCascade, SpecSessionIssue) *)

\* Issue j is issue i or lies below it: i is reached from j in at most n steps
\* from an issue to its parent.
RECURSIVE Under(_, _, _)
Under(j, i, n) ==
    \/ j = i
    \/ /\ n > 0
       /\ issues[j].parent_id # None
       /\ issues[j].parent_id[1] \in DOMAIN issues
       /\ Under(issues[j].parent_id[1], i, n - 1)

\* The issues a delete of issue i is to remove.
Removed(i) == {j \in DOMAIN issues : Under(j, i, Cardinality(DOMAIN issues))}

\* C16: delete_issue(id) on an issue with subissues removes the issue and all of its
\* transitive descendants, none of which get_issue reads afterwards, and every
\* issue that is not a descendant remains as it was.
C16_DeleteCascades ==
    [][ \A i \in TreeIds : (Exists(i) /\ delete_issue(i)) =>
           /\ ret' = OkBool(TRUE)
           /\ \A j \in DOMAIN issues :
                 IF j \in Removed(i)
                 THEN get_issue(db', j) = None
                 ELSE get_issue(db', j) = get_issue(db, j)
      ]_vars

\* Of the issues created, two are gone after a call that returned Ok(true), and
\* the two left are the first one and the subissue of it that was created last.
C16_Witness ==
    /\ ret = OkBool(TRUE)
    /\ seq = MaxTreeIssues
    /\ DOMAIN issues = {1, MaxTreeIssues}
    /\ issues[MaxTreeIssues].parent_id = Some(1)

\* C17: after delete_issue(id) succeeds no label, comment, dependency edge,
\* relation or milestone membership names id or a deleted descendant, and the rows
\* that name surviving issues only are unchanged.
C17_DeleteCascadesRows ==
    [][ \A i \in LifeIds : (Exists(i) /\ delete_issue(i)) =>
           LET gone == Removed(i)
           IN /\ ret' = OkBool(TRUE)
              /\ labels' = {l \in labels : l[1] \notin gone}
              /\ DOMAIN comments' = {c \in DOMAIN comments : comments[c].issue_id \notin gone}
              /\ \A c \in DOMAIN comments' : comments'[c] = comments[c]
              /\ deps' = {d \in deps : d[1] \notin gone /\ d[2] \notin gone}
              /\ relations' = {r \in relations : r[1] \notin gone /\ r[2] \notin gone}
              /\ milestone_issues' = {m \in milestone_issues : m[2] \notin gone}
              /\ milestones' = milestones
      ]_vars

\* The first comment went with the issue it was on and the second, on the issue
\* that is left, is there.
C17_Witness ==
    /\ ret = OkBool(TRUE)
    /\ seq = 2
    /\ DOMAIN issues = {1}
    /\ comment_seq = 2
    /\ DOMAIN comments = {2}
    /\ comments[2].issue_id = 1

\* C18: when a session's active_issue_id names issue i, delete_issue on i or on an
\* issue above i succeeds, the session row is still there with the same id and
\* ended_at, and its active_issue_id is NULL; the other sessions are unchanged.
C18_SessionIssueSetNull ==
    [][ \A i \in LifeIds : (Exists(i) /\ delete_issue(i)) =>
           /\ ret' = OkBool(TRUE)
           /\ DOMAIN sessions' = DOMAIN sessions
           /\ \A k \in DOMAIN sessions :
                 IF sessions[k].active_issue_id # None
                    /\ sessions[k].active_issue_id[1] \in Removed(i)
                 THEN /\ sessions'[k].active_issue_id = None
                      /\ sessions'[k].ended_at = sessions[k].ended_at
                      /\ sessions'[k].started_at = sessions[k].started_at
                      /\ sessions'[k].handoff_notes = sessions[k].handoff_notes
                 ELSE sessions'[k] = sessions[k]
      ]_vars

\* An ended session names no issue after every issue was deleted, beside a
\* current session that names none either.
C18_Witness ==
    /\ ret = OkBool(TRUE)
    /\ seq = MaxLifeIssues
    /\ issues = <<>>
    /\ DOMAIN sessions = {1, 2}
    /\ sessions[1].ended_at # None
    /\ sessions[1].handoff_notes = Some("n")
    /\ sessions[1].active_issue_id = None
    /\ sessions[2].ended_at = None
    /\ sessions[2].active_issue_id = None

----------------------------------------------------------------------------
(* The session commands (SpecSession) *)

Current == {k \in DOMAIN sessions : sessions[k].ended_at = None}

\* C19: after any sequence of the commands start and end at most one session has
\* ended_at NULL; start while a session is current creates no session and leaves
\* the current one unchanged; after end there is no current session.
C19_OneCurrentSession ==
    [][ /\ Cardinality(Current') <= 1
        /\ (Current # {} /\ session_start)
              => (ret' = OkUnit /\ sessions' = sessions /\ session_seq' = session_seq)
        /\ \A n \in NotesInputs :
              (Current # {} /\ session_end(n))
                 => (ret' = OkUnit /\ get_current_session(db') = None)
      ]_vars

\* The first session was ended with notes and the second is current, started on a
\* later day.
C19_Witness ==
    /\ ret = OkUnit
    /\ DOMAIN sessions = {1, 2}
    /\ sessions[1].ended_at # None
    /\ sessions[1].handoff_notes = Some("n")
    /\ sessions[2].ended_at = None
    /\ sessions[2].started_at > sessions[1].started_at
    /\ get_current_session(db) = Some(session_from_row(db, 2))

----------------------------------------------------------------------------
(* Database::transaction (SpecTxn) *)

\* C20: when the body returns Ok, transaction commits: every write the body made
\* is in the store, the transaction is over and the body's value is returned; when
\* the body returns Err, every table is what it was at BEGIN, the transaction is
\* over and the error returned is the body's.
C20_CommitOrRollback ==
    [][ /\ \A r \in BodyResults :
              (txn # None /\ transaction_commit(r))
                 => (tables' = tables /\ txn' = None /\ ret' = r)
        /\ \A e \in BodyErrors :
              (txn # None /\ transaction_rollback(e))
                 => (tables' = txn[1] /\ txn' = None /\ ret' = e)
      ]_vars

\* No transaction is open, the last thing returned is the error of a body, and
\* the store holds a closed, labelled issue from before.
C20_Witness ==
    /\ ret = BodyError
    /\ txn = None
    /\ \E i \in DOMAIN issues : issues[i].status = "closed" /\ <<i, "bug">> \in labels

----------------------------------------------------------------------------
(* JSON import (SpecImport) *)

\* The contents of the comments on issue i in the tables `self`, in id order.
CommentContents(self, i) ==
    LET order == Ascending({c \in DOMAIN self.comments : self.comments[c].issue_id = i})
    IN [k \in 1..Len(order) |-> self.comments[order[k]].content]

\* C21: when a call of the import fails, run_json returns the error and the
\* store is what it was before, with none of the issues, labels, comments and
\* parent links of the import; when none fails, every issue of the file is in
\* the store under a new id, with its title, description, priority, status,
\* labels and comments, and with its parent link when the parent is in the file,
\* and the issues that were there before are untouched.
C21_ImportAllOrNothing ==
    [][ \A f \in FailPoints : (input_file # None /\ run_json(f)) =>
           LET data == input_file[1]
           IN IF ret'.kind = "Err"
              THEN tables' = tables
              ELSE /\ ret' = OkUnit
                   /\ DOMAIN issues' = (DOMAIN issues) \cup {seq + k : k \in 1..Len(data)}
                   /\ \A i \in DOMAIN issues : issues'[i] = issues[i]
                   /\ \A k \in 1..Len(data) :
                         /\ issues'[seq + k].title = data[k].title
                         /\ issues'[seq + k].description = data[k].description
                         /\ issues'[seq + k].priority = data[k].priority
                         /\ issues'[seq + k].status = data[k].status
                         /\ {l[2] : l \in {x \in labels' : x[1] = seq + k}}
                               = {data[k].labels[n] : n \in 1..Len(data[k].labels)}
                         /\ CommentContents(db', seq + k) = data[k].comments
                         /\ issues'[seq + k].parent_id =
                               IF data[k].parent_id # None
                                  /\ data[k].parent_id[1] \in 1..Len(data)
                               THEN Some(seq + data[k].parent_id[1])
                               ELSE None
      ]_vars

\* The import of a file of two issues, the first closed, labelled and commented
\* and the second a subissue of it, has just failed, and the store holds what it
\* held before: nothing.
C21_Witness ==
    /\ ret = StorageError
    /\ input_file # None
    /\ Len(input_file[1]) = 2
    /\ input_file[1][1].status = "closed"
    /\ input_file[1][1].labels # <<>>
    /\ input_file[1][1].comments # <<>>
    /\ input_file[1][2].parent_id = Some(1)
    /\ issues = <<>>
    /\ seq = 0
    /\ labels = {}
    /\ comments = <<>>

----------------------------------------------------------------------------
(* Creating, updating and listing issues (SpecCreate, SpecUpdate, SpecList) *)

\* C22: for every title, description (absent, empty or not) and priority,
\* create_issue returns an id on which get_issue yields an issue with that id,
\* the identical title and description, the given priority, status open, no
\* parent and no closed_at.
C22_CreateThenGet ==
    [][ \A t \in Titles, d \in Descriptions, p \in Priorities :
           create_issue(t, d, p) =>
              /\ ret'.kind = "Ok"
              /\ get_issue(db', ret'.val) # None
              /\ LET issue == get_issue(db', ret'.val)[1]
                 IN /\ issue.id = ret'.val
                    /\ issue.title = t
                    /\ issue.description = d
                    /\ issue.priority = p
                    /\ issue.status = "open"
                    /\ issue.parent_id = None
                    /\ issue.closed_at = None
      ]_vars

\* The issue just created has the empty title and the empty description, beside
\* an earlier one that has no description.
C22_Witness ==
    /\ ret = OkInt(2)
    /\ get_issue(db, 2) # None
    /\ get_issue(db, 2)[1].title = ""
    /\ get_issue(db, 2)[1].description = Some("")
    /\ get_issue(db, 2)[1].priority = "high"
    /\ get_issue(db, 2)[1].created_at > 0
    /\ get_issue(db, 1)[1].description = None

\* C23: update_issue(id, title?, description?, priority?) on an existing issue
\* returns true, sets each field that is given, sets updated_at, and keeps each
\* field that is absent and the status, closed_at, parent_id and created_at, the
\* other issues, and every label, comment and dependency edge; on an id of no
\* issue it returns false and changes nothing.
C23_PartialUpdate ==
    [][ \A i \in LifeIds, u \in PartialUpdates :
           update_issue(i, u[1], u[2], u[3]) =>
              IF Exists(i)
              THEN /\ ret' = OkBool(TRUE)
                   /\ issues'[i].title = IF u[1] # None THEN u[1][1] ELSE issues[i].title
                   /\ issues'[i].description =
                         IF u[2] # None THEN u[2] ELSE issues[i].description
                   /\ issues'[i].priority =
                         IF u[3] # None THEN u[3][1] ELSE issues[i].priority
                   /\ issues'[i].updated_at = now
                   /\ issues'[i].status = issues[i].status
                   /\ issues'[i].closed_at = issues[i].closed_at
                   /\ issues'[i].parent_id = issues[i].parent_id
                   /\ issues'[i].created_at = issues[i].created_at
                   /\ OthersKept(i)
                   /\ labels' = labels
                   /\ comments' = comments
                   /\ deps' = deps
              ELSE /\ ret' = OkBool(FALSE)
                   /\ tables' = tables
      ]_vars

\* The first issue, closed, with a label, a comment and a blocker, has a new title
\* and the description and priority it was created with, beside a subissue of it
\* that has a new priority and the title it was created with.
C23_Witness ==
    /\ ret = OkBool(TRUE)
    /\ DOMAIN issues = {1, 2}
    /\ issues[1].title = "B"
    /\ issues[1].description = None
    /\ issues[1].priority = "low"
    /\ issues[1].status = "closed"
    /\ <<1, "bug">> \in labels
    /\ \E c \in DOMAIN comments : comments[c].issue_id = 1
    /\ <<2, 1>> \in deps
    /\ issues[2].parent_id = Some(1)
    /\ issues[2].title = "A"
    /\ issues[2].priority = "high"

\* C24: for every combination of filters list_issues returns exactly the issues
\* that satisfy each filter given, each issue once, as get_issue reads it, in
\* descending id order: no status filter and the status filter "all" restrict
\* nothing, another status filter selects the issues of exactly that status, a
\* label filter the issues that carry that label, and a priority filter the issues
\* of exactly that priority.
C24_ListFilters ==
    \A sf \in StatusFilters, lf \in LabelFilters, pf \in PriorityFilters :
        LET rows == list_issues(db, sf, lf, pf)
            want == {i \in DOMAIN issues :
                        /\ sf \in {None, Some("all")} \/ issues[i].status = sf[1]
                        /\ lf = None \/ <<i, lf[1]>> \in labels
                        /\ pf = None \/ issues[i].priority = pf[1]}
        IN /\ IdSet(rows) = want
           /\ \A k \in 1..(Len(rows) - 1) : rows[k].id > rows[k + 1].id
           /\ \A k \in 1..Len(rows) : get_issue(db, rows[k].id) = Some(rows[k])

\* Two issues carry the label bug, the first of them the other label too and the
\* second closed: the label filter lists both, the later one first, and with the
\* status filter open only the first.
C24_Witness ==
    /\ {<<1, "bug">>, <<1, "ui">>, <<2, "bug">>} \subseteq labels
    /\ IdsOf(list_issues(db, Some("all"), Some("bug"), None)) = <<2, 1>>
    /\ IdsOf(list_issues(db, None, Some("bug"), None)) = <<2, 1>>
    /\ IdsOf(list_issues(db, Some("open"), Some("bug"), None)) = <<1>>
    /\ IdsOf(list_issues(db, Some("closed"), None, Some("high"))) = <<2>>

----------------------------------------------------------------------------
(* Searching (SpecSearch) *)

\* The query is in the text as a run of characters, letters compared without
\* their case.
Contains(text, query) ==
    \E k \in 0..(Len(text) - Len(query)) :
        \A j \in 1..Len(query) : Tolower(text[k + j]) = Tolower(query[j])

\* C25: for every query, with or without percent signs, underscores and
\* backslashes, search_issues returns exactly the issues whose title, description
\* or some comment contains the query literally, letters compared without their
\* case.
C25_SearchIsLiteral ==
    \A query \in Queries :
        IdSet(search_issues(db, query)) =
            {i \in DOMAIN issues :
                \/ Contains(issues[i].title, query)
                \/ issues[i].description # None /\ Contains(issues[i].description[1], query)
                \/ \E c \in DOMAIN comments :
                      comments[c].issue_id = i /\ Contains(comments[c].content, query)}

----------------------------------------------------------------------------
(* Relations (SpecRelate) *)

\* The rows of relations that link a and b, in either order.
Linking(rel, a, b) ==
    {r \in rel : (r[1] = a /\ r[2] = b) \/ (r[1] = b /\ r[2] = a)}

\* C26: add_relation(a, b) on two distinct issues leaves exactly one row for the
\* pair, with the smaller id first, whichever order the ids are given in and
\* whichever order the pair was given in before; it returns true when the pair was
\* not related and false, changing nothing, when it was.  remove_relation(a, b)
\* removes the row of the pair in whichever order it was added, returns whether
\* there was one, and keeps the other rows.  add_relation(a, a) returns an error
\* and stores nothing.  After every call each b among get_related_issues(a) is
\* another issue that has a among its get_related_issues(b).
C26_RelationsSymmetric ==
    [][ /\ \A a \in TreeIds, b \in TreeIds :
              add_relation(a, b) =>
                  IF a = b
                  THEN ret'.kind = "Err" /\ relations' = relations
                  ELSE (Exists(a) /\ Exists(b)) =>
                          /\ Cardinality(Linking(relations', a, b)) = 1
                          /\ \A r \in Linking(relations', a, b) : r[1] < r[2]
                          /\ ret' = OkBool(Linking(relations, a, b) = {})
                          /\ Linking(relations, a, b) # {} => relations' = relations
                          /\ relations' \ Linking(relations', a, b) = relations \ Linking(relations, a, b)
        /\ \A a \in TreeIds, b \in TreeIds :
              remove_relation(a, b) =>
                  /\ Linking(relations', a, b) = {}
                  /\ ret' = OkBool(Linking(relations, a, b) # {})
                  /\ relations' = relations \ Linking(relations, a, b)
        /\ LET self == db'
               related == [a \in TreeIds |-> IdSet(get_related_issues(self, a))]
           IN \A a \in TreeIds : \A b \in related[a] : a # b /\ a \in related[b]
      ]_vars

\* Issues 1 and 2 are related by one row, each is the other's only related issue,
\* and the last call, which gave a pair already stored, returned false.
C26_Witness ==
    /\ ret = OkBool(FALSE)
    /\ {<<r[1], r[2]>> : r \in relations} = {<<1, 2>>}
    /\ IdsOf(get_related_issues(db, 1)) = <<2>>
    /\ IdsOf(get_related_issues(db, 2)) = <<1>>

----------------------------------------------------------------------------
(* Issue ids and absent parents (SpecTree) *)

\* C27: over create_issue, create_subissue and delete_issue, the highest id
\* assigned so far never goes down, no stored issue has an id above it, and every
\* issue a call creates gets an id above it, which the call returns: an id is not
\* assigned twice, whichever issues were deleted in between.
C27_IdsNeverReused ==
    [][ /\ seq' >= seq
        /\ DOMAIN issues' \subseteq 1..seq'
        /\ \A i \in DOMAIN issues' \ DOMAIN issues :
              /\ i > seq
              /\ \A j \in DOMAIN issues : i > j
              /\ ret' = OkInt(i)
      ]_vars

\* Every issue created before the last one has been deleted, each while it had the
\* highest id, and the last one created has the next id all the same.
C27_Witness ==
    /\ DOMAIN issues = {MaxTreeIssues}
    /\ ret = OkInt(MaxTreeIssues)

\* C28 as stated: create_subissue under the id of no issue succeeds, returns a new
\* id and stores the row with that parent_id, a row that get_subissues returns for
\* no existing parent.
C28_AsStated ==
    [][ \A p \in TreeIds :
            (~Exists(p) /\ create_subissue(p, "A", None, "medium"))
               => /\ ret' = OkInt(seq + 1)
                  /\ seq + 1 \in DOMAIN issues'
                  /\ issues'[seq + 1].parent_id = Some(p)
                  /\ \A q \in DOMAIN issues' :
                        seq + 1 \notin IdSet(get_subissues(db', q))
      ]_vars

\* C28, amended: create_subissue under the id of no issue is rejected by the
\* store: it returns the foreign key error, assigns no id and stores no row, so
\* that every table, and with them every get_subissues lookup, is as it was.
C28_AbsentParentRejected ==
    [][ \A p \in TreeIds :
            (~Exists(p) /\ create_subissue(p, "A", None, "medium"))
               => /\ ret' = Err("FOREIGN KEY constraint failed")
                  /\ seq' = seq
                  /\ tables' = tables
                  /\ \A q \in TreeIds : get_subissues(db', q) = get_subissues(db, q)
      ]_vars

\* The first of two issues has been deleted, and the call that failed last named
\* an id of no issue as the parent: the second issue is all there is.
C28_Witness ==
    /\ ret = Err("FOREIGN KEY constraint failed")
    /\ seq = 2
    /\ DOMAIN issues = {2}
    /\ \A q \in TreeIds : get_subissues(db, q) = <<>>

----------------------------------------------------------------------------
(* Comments (SpecComments) *)

\* C29: the comments of an issue are a log that only grows at its end.  In every
\* step, for every issue that is still there, get_comments returns what it
\* returned before, followed by at most one new comment; add_comment on the issue
\* puts its comment last, with a new id and the time of the call; and the comments
\* of an issue are gone only with the issue, which goes only in a delete_issue of
\* the issue or of an issue above it.
C29_CommentsAppendOnly ==
    [][ \A i \in LifeIds :
            LET before == get_comments(db, i)
                after == get_comments(db', i)
            IN /\ i \in DOMAIN issues' =>
                     /\ Len(after) \in {Len(before), Len(before) + 1}
                     /\ SubSeq(after, 1, Len(before)) = before
               /\ \A c \in CommentTexts :
                     (Exists(i) /\ add_comment(i, c)) =>
                         after = Append(before, [id |-> comment_seq + 1, issue_id |-> i,
                                                 content |-> c, created_at |-> now])
               /\ (Len(after) > Len(before)) =>
                     \E c \in CommentTexts : add_comment(i, c)
               /\ (Exists(i) /\ i \notin DOMAIN issues') =>
                     /\ after = <<>>
                     /\ \E j \in LifeIds : delete_issue(j) /\ Under(i, j, MaxLifeIssues)
      ]_vars

\* An issue has three comments, the first two added at one reading of the clock
\* and the third at a later one, and the issue has since been closed:
\* get_comments returns them as they were added.
C29_Witness ==
    /\ Exists(1)
    /\ issues[1].status = "closed"
    /\ LET log == get_comments(db, 1)
       IN /\ Len(log) = 3
          /\ <<log[1].id, log[2].id, log[3].id>> = <<1, 2, 3>>
          /\ log[1].created_at = log[2].created_at
          /\ log[2].created_at < log[3].created_at

----------------------------------------------------------------------------
(* Removing a dependency (SpecGraph) *)

\* C30: remove_dependency(blocked, blocker) returns true exactly when the edge
\* from blocker to blocked was stored; afterwards that edge is not stored, every
\* other edge is stored exactly if it was before, and every issue and every other
\* table is as it was.
C30_RemoveDependencyFrame ==
    [][ \A a \in Ids, b \in Ids :
            remove_dependency(a, b) =>
                /\ ret' = OkBool(<<b, a>> \in deps)
                /\ <<b, a>> \notin deps'
                /\ \A x \in Ids, y \in Ids :
                      <<x, y>> # <<b, a>> => (<<x, y>> \in deps' <=> <<x, y>> \in deps)
                /\ deps' \subseteq deps
                /\ issues' = issues
                /\ [tables EXCEPT !.deps = {}] = [tables' EXCEPT !.deps = {}]
      ]_vars

\* Of three issues the third is blocked by the first, the only edge left, and
\* the last call removed an edge that was stored.
C30_Witness ==
    /\ ret = OkBool(TRUE)
    /\ deps = {<<1, 3>>}
    /\ DOMAIN issues = {1, 2, 3}

----------------------------------------------------------------------------
(* Archiving by age (SpecArchive) *)

\* C31: archive_older_than(days) makes archived exactly the issues that are closed
\* with closed_at earlier than now minus days, and returns how many they are; of
\* those issues nothing but the status and updated_at changes, and every other
\* issue (open, archived already, or closed at the cutoff or later) is left as
\* it was, as is every other table.
C31_ArchiveOlderThan ==
    [][ \A d \in ArchiveDays :
            archive_older_than(d) =>
                LET old == {i \in DOMAIN issues :
                               /\ issues[i].status = "closed"
                               /\ issues[i].closed_at # None
                               /\ issues[i].closed_at[1] + d < now}
                IN /\ ret' = OkInt(Cardinality(old))
                   /\ DOMAIN issues' = DOMAIN issues
                   /\ \A i \in DOMAIN issues :
                         IF i \in old
                         THEN /\ issues'[i].status = "archived"
                              /\ [issues'[i] EXCEPT !.status = "closed",
                                                    !.updated_at = issues[i].updated_at]
                                    = issues[i]
                         ELSE issues'[i] = issues[i]
                   /\ [tables' EXCEPT !.issues = <<>>] = [tables EXCEPT !.issues = <<>>]
      ]_vars

\* Of two issues the first was closed before the clock advanced and the second
\* after: the call archived the first and left the second closed.
C31_Witness ==
    /\ ret = OkInt(1)
    /\ DOMAIN issues = {1, 2}
    /\ issues[1].status = "archived"
    /\ issues[1].closed_at = Some(0)
    /\ issues[1].updated_at = now
    /\ issues[2].status = "closed"
    /\ issues[2].closed_at = Some(now)
    /\ now > 0

----------------------------------------------------------------------------
(* Opening a store again (SpecOpen) *)

\* C32: opening a store that exists succeeds, leaves the schema version at
\* SCHEMA_VERSION, and leaves every row of issues, labels, comments,
\* dependencies, relations and sessions, with each session's active issue and
\* handoff notes, and every id sequence as it was; so does opening it again.
C32_OpenIsIdempotent ==
    [][ open => /\ ret' = OkUnit
                /\ user_version' = SCHEMA_VERSION
                /\ issues' = issues
                /\ labels' = labels
                /\ comments' = comments
                /\ deps' = deps
                /\ relations' = relations
                /\ DOMAIN sessions' = DOMAIN sessions
                /\ \A k \in DOMAIN sessions :
                      /\ sessions'[k].started_at = sessions[k].started_at
                      /\ sessions'[k].ended_at = sessions[k].ended_at
                      /\ sessions'[k].active_issue_id = sessions[k].active_issue_id
                      /\ sessions'[k].handoff_notes = sessions[k].handoff_notes
                /\ tables' = tables
      ]_vars

\* The store holds a label, a comment and a dependency, an ended session with
\* notes and a current session working on issue 1, and has just been opened.
C32_Witness ==
    /\ ret = OkUnit
    /\ user_version = SCHEMA_VERSION
    /\ labels # {} /\ comments # <<>> /\ deps # {}
    /\ DOMAIN sessions = {1, 2}
    /\ sessions[1].ended_at # None
    /\ sessions[1].handoff_notes = Some("n")
    /\ sessions[2].ended_at = None
    /\ sessions[2].active_issue_id = Some(1)

----------------------------------------------------------------------------
(* Sessions started on the store itself (SpecSessionIssue) *)

\* C33: after any sequence of start_session and end_session calls on the store at
\* most one session has ended_at NULL.
C33_StoreOneCurrentSession ==
    Cardinality({k \in DOMAIN sessions : sessions[k].ended_at = None}) <= 1

----------------------------------------------------------------------------
(* Parents, status and labels of imported issues (SpecImportParents,            *)
(* SpecImportStatus)                                                            *)

\* C34: after an import that succeeded, an issue of the file whose exported
\* parent_id is the exported id of another issue of the file has as its parent
\* the new id of that issue, wherever in the file that issue stands; an issue
\* whose exported parent_id is absent or the id of no issue of the file has no
\* parent, even when the store has an issue with that id; and the issues the
\* store had before keep their parents.
C34_ImportMapsParents ==
    [][ \A f \in 0..1 : (input_file # None /\ run_json(f) /\ ret' = OkUnit) =>
           LET data == input_file[1]
               InFile(o) == {j \in 1..Len(data) : data[j].id = o}
           IN /\ \A k \in 1..Len(data) :
                    IF data[k].parent_id = None \/ InFile(data[k].parent_id[1]) = {}
                    THEN issues'[seq + k].parent_id = None
                    ELSE \A j \in InFile(data[k].parent_id[1]) :
                            j # k => issues'[seq + k].parent_id = Some(seq + j)
              /\ \A i \in DOMAIN issues : issues'[i].parent_id = issues[i].parent_id
      ]_vars

\* A store with an issue and a subissue of it has imported two issues: the first
\* of the file has the second as its parent, and the second, exported with the
\* parent id 1, which is an id of the store but of no issue of the file, has none.
C34_Witness ==
    /\ ret = OkUnit
    /\ input_file # None
    /\ Len(input_file[1]) = 2
    /\ input_file[1][1].parent_id = Some(input_file[1][2].id)
    /\ input_file[1][2].parent_id = Some(1)
    /\ DOMAIN issues = 1..4
    /\ issues[2].parent_id = Some(1)
    /\ issues[3].parent_id = Some(4)
    /\ issues[4].parent_id = None

\* C35: after an import that succeeded, every issue of the file is in the store
\* with the status of its record, open, closed or archived, and with exactly the
\* labels of its record.
C35_ImportKeepsStatusAndLabels ==
    [][ \A f \in 0..1 : (input_file # None /\ run_json(f) /\ ret' = OkUnit) =>
           LET data == input_file[1]
           IN \A k \in 1..Len(data) :
                 /\ issues'[seq + k].status = data[k].status
                 /\ {l[2] : l \in {x \in labels' : x[1] = seq + k}}
                       = {data[k].labels[n] : n \in 1..Len(data[k].labels)}
      ]_vars

----------------------------------------------------------------------------
(* The command session work (SpecSessionWork) *)

\* C36: when there is a current session and the issue exists, session work
\* succeeds and sets the active issue of the current session to the issue,
\* changing nothing else of that session and no other session; when there is no
\* current session or no such issue it returns an error and changes no session.
C36_WorkNeedsSessionAndIssue ==
    [][ \A i \in LifeIds :
           session_work(i) =>
              LET current == {k \in DOMAIN sessions : sessions[k].ended_at = None}
              IN IF current # {} /\ i \in DOMAIN issues
                 THEN /\ ret'.kind = "Ok"
                      /\ DOMAIN sessions' = DOMAIN sessions
                      /\ \A k \in DOMAIN sessions :
                            IF k \in current
                            THEN sessions'[k] =
                                    [sessions[k] EXCEPT !.active_issue_id = Some(i)]
                            ELSE sessions'[k] = sessions[k]
                 ELSE /\ ret'.kind = "Err"
                      /\ sessions' = sessions
      ]_vars

\* The first session worked on issue 1 and was ended; the second, current one,
\* was set to issue 1 and has just been set to issue 2.
C36_Witness ==
    /\ ret = OkUnit
    /\ DOMAIN issues = {1, 2}
    /\ DOMAIN sessions = {1, 2}
    /\ sessions[1].ended_at # None
    /\ sessions[1].active_issue_id = Some(1)
    /\ sessions[2].ended_at = None
    /\ sessions[2].active_issue_id = Some(2)

----------------------------------------------------------------------------
(* The search of add_dependency on any edge set (SpecCycleSearch) *)

NoRepeat(q) == \A i \in DOMAIN q, j \in DOMAIN q : q[i] = q[j] => i = j

\* C37: add_dependency returns (Ok or Err) for every pair of ids and every
\* stored edge set, those that hold a cycle included: a call in its loop always
\* comes to its return, and the search reads the blocked issues of no issue
\* twice.
C37_AddDependencyTerminates ==
    /\ [](NoRepeat(search.expanded))
    /\ (search.pc = "loop") ~> (search.pc = "idle" /\ ret.kind \in {"Ok", "Err"})

\* The stored edges hold a cycle through the issue asked about; the search has
\* expanded every issue of the cycle, found none of their blocked issues new,
\* and is left with an empty stack.
C37_Witness ==
    /\ search.pc = "loop"
    /\ Blocks(deps, search.blocked_id, search.blocked_id)
    /\ Len(search.expanded) >= 2
    /\ search.stack = <<>>

----------------------------------------------------------------------------
(* Referential integrity (SpecIntegrity) *)

\* Every row of the tables `t` that refers to an issue names one that exists.
Integrity(t) ==
    /\ \A e \in t.deps : e[1] \in DOMAIN t.issues /\ e[2] \in DOMAIN t.issues
    /\ \A l \in t.labels : l[1] \in DOMAIN t.issues
    /\ \A k \in DOMAIN t.comments : t.comments[k].issue_id \in DOMAIN t.issues
    /\ \A r \in t.relations : r[1] \in DOMAIN t.issues /\ r[2] \in DOMAIN t.issues
    /\ \A m \in t.milestone_issues : m[2] \in DOMAIN t.issues
    /\ \A k \in DOMAIN t.time_entries : t.time_entries[k].issue_id \in DOMAIN t.issues
    /\ \A k \in DOMAIN t.sessions :
          t.sessions[k].active_issue_id # None
              => t.sessions[k].active_issue_id[1] \in DOMAIN t.issues

\* The step is one of add_dependency, add_label, add_comment, add_relation or
\* start_timer called with an id of no existing issue.
CallWithoutIssue ==
    \/ \E a \in RefIds, b \in RefIds :
          /\ ~Exists(a) \/ ~Exists(b)
          /\ add_dependency(a, b) \/ add_relation(a, b)
    \/ \E i \in RefIds :
          /\ ~Exists(i)
          /\ add_label(i, "bug") \/ add_comment(i, "c") \/ start_timer(i)

\* The step is set_session_issue on session k with an id of no existing issue.
SetSessionIssueWithoutIssue(k) ==
    \E i \in RefIds : ~Exists(i) /\ set_session_issue(k, i)

\* The step returns an error and stores nothing.
Refused == ret'.kind = "Err" /\ tables' = tables

\* C38 as stated: referential integrity holds in every reachable state, and
\* add_dependency, add_label, add_comment, add_relation, start_timer and
\* set_session_issue called with an id of no existing issue return an error and
\* store nothing.
C38_AsStated ==
    /\ [](Integrity(tables))
    /\ [][ Refused \/ ~(CallWithoutIssue \/ \E k \in 1..2 : SetSessionIssueWithoutIssue(k))
         ]_vars

\* C38, amended: referential integrity holds in every reachable state, and
\* add_dependency, add_label, add_comment, add_relation, start_timer, and
\* set_session_issue on a session that exists, called with an id of no existing
\* issue return an error and store nothing; set_session_issue on a session that
\* does not exist returns Ok(false) and stores nothing.
C38_ReferentialIntegrity ==
    /\ [](Integrity(tables))
    /\ [][ \/ Refused
           \/ /\ ~CallWithoutIssue
              /\ \A k \in 1..2 :
                    SetSessionIssueWithoutIssue(k)
                        => /\ k \notin DOMAIN sessions
                           /\ ret' = OkBool(FALSE)
                           /\ tables' = tables
         ]_vars

\* A timer was started on an issue, the issue was deleted and the time entry
\* with it, and a call naming an issue that does not exist was then refused.
C38_Witness ==
    /\ time_seq > 0
    /\ time_entries = <<>>
    /\ Cardinality(DOMAIN issues) < seq
    /\ ret = Err("FOREIGN KEY constraint failed")

----------------------------------------------------------------------------
(* Readiness and the status of the blocker (SpecReadiness) *)

BlockedIds(self) == IdSet(list_blocked_issues(self))

\* The step is close_issue, reopen_issue, archive_issue or unarchive_issue.
LifecycleCall ==
    \E i \in Ids :
        close_issue(i) \/ reopen_issue(i) \/ archive_issue(i) \/ unarchive_issue(i)

\* C39: when X is ready (its blocker B having been closed), reopen_issue(B)
\* takes X out of list_ready_issues and puts it in list_blocked_issues; and
\* close_issue, reopen_issue, archive_issue and unarchive_issue leave the
\* dependency edges as they are.
C39_ReadinessFollowsBlocker ==
    [][ /\ \A b \in Ids :
              reopen_issue(b)
                  => \A x \in ReadyIds(db) :
                        <<b, x>> \in deps
                            => (x \notin ReadyIds(db') /\ x \in BlockedIds(db'))
        /\ deps' = deps \/ ~LifecycleCall
      ]_vars

\* Issue X has two blockers, one closed and one open, the last call (a reopen
\* among them) returned true, and X is listed as blocked and not as ready.
C39_Witness ==
    \E x \in Ids, b \in Ids, c \in Ids :
        /\ b # c
        /\ {<<b, x>>, <<c, x>>} \subseteq deps
        /\ issues[c].status = "closed"
        /\ issues[b].status = "open"
        /\ ret = OkBool(TRUE)
        /\ x \in BlockedIds(db) /\ x \notin ReadyIds(db)

----------------------------------------------------------------------------
(* The next command (SpecNext) *)

\* The order of the priorities.
Rank(priority) ==
    CASE priority = "critical" -> 4 [] priority = "high" -> 3
      [] priority = "medium" -> 2 [] priority = "low" -> 1

\* Some but not all of the subissues of i are closed.
PartlyDone(i) ==
    /\ \E c \in DOMAIN issues :
          issues[c].parent_id = Some(i) /\ issues[c].status = "closed"
    /\ \E c \in DOMAIN issues :
          issues[c].parent_id = Some(i) /\ issues[c].status # "closed"

\* j scores higher than i: by its priority, or at the same priority by being
\* partly done when i is not.
ScoresHigher(j, i) ==
    \/ Rank(issues[j].priority) > Rank(issues[i].priority)
    \/ /\ issues[j].priority = issues[i].priority
       /\ PartlyDone(j) /\ ~PartlyDone(i)

\* The ready issues without a parent.
ReadyRoots == {i \in ReadyIds(db) : issues[i].parent_id = None}

\* The step is the next command printing issue i as "Next".
Recommends(i) == ret'.msg = next_line(issue_from_row(db, i)) /\ next_run

\* C40 as stated: the issue the next command prints as "Next" is a member of
\* list_ready_issues, and it is among the ready issues without a parent one
\* with the highest score.
C40_AsStated ==
    [][ \A i \in DOMAIN issues :
            Recommends(i)
                => /\ i \in ReadyIds(db)
                   /\ i \in ReadyRoots
                   /\ \A j \in ReadyRoots : ~ScoresHigher(j, i)
      ]_vars

\* C40, amended: the issue the next command prints as "Next" is a member of
\* list_ready_issues; when some ready issue has no parent it is among the ready
\* issues without a parent one with the highest score, and when every ready
\* issue is a subissue it is the ready issue of least id.
C40_NextIsReadyAndBest ==
    [][ \A i \in DOMAIN issues :
            Recommends(i)
                => /\ i \in ReadyIds(db)
                   /\ ReadyRoots # {}
                         => (i \in ReadyRoots /\ \A j \in ReadyRoots : ~ScoresHigher(j, i))
                   /\ ReadyRoots = {}
                         => \A j \in ReadyIds(db) : i <= j
      ]_vars

\* Issue 1, of medium priority, has one subissue closed and one open; another
\* issue of medium priority is ready with it, and the next command has just
\* recommended issue 1.
C40_Witness ==
    /\ ret.msg = "Next: #1 [medium] A"
    /\ PartlyDone(1)
    /\ \E j \in ReadyRoots : j # 1 /\ issues[j].priority = "medium"

====
